---- MODULE Spec2Model ----
(***************************************************************************)
(* Ponos: bytecode generator (src/src/ponos/generator.rs) and stack VM     *)
(* (src/src/ponos/vm.rs), behind the import processing and name            *)
(* resolution of run_source (src/src/ponos.rs, module/, name_resolver.rs). *)
(*                                                                         *)
(* Conventions.  All indices are the zero-based indices of the Rust code   *)
(* (ip, slots, constant indices, stack indices); a Rust vector v is a      *)
(* sequence and v[i] is written At(v, i).  A Rust String is a sequence of  *)
(* code points (one-character strings).  An Option is <<>> (None) or <<x>> *)
(* (Some(x)).  A HashMap is a function whose DOMAIN is the key set.        *)
(* Numbers are integers (the f64 of the source restricted to the small     *)
(* integers the programs below compute).                                   *)
(***************************************************************************)
EXTENDS Integers, Sequences, FiniteSets, TLC

(***************************************************************************)
(* A value (enum Value of value.rs) is a tag t and a payload v.  The tag   *)
(* is the first field: two values are compared tag first, their payloads   *)
(* only when the tags agree.                                               *)
(***************************************************************************)
Val(t, v) == [t |-> t, v |-> v]

(***************************************************************************)
(* Vectors, options and maps                                               *)
(***************************************************************************)
At(v, i) == v[i + 1]

SetAt(v, i, x) == [v EXCEPT ![i + 1] = x]

Truncate(v, n) == IF Len(v) > n THEN SubSeq(v, 1, n) ELSE v

Max(a, b) == IF a >= b THEN a ELSE b

Min(a, b) == IF a <= b THEN a ELSE b

EmptyMap == <<>>

MapInsert(m, k, x) == (k :> x) @@ m

(***************************************************************************)
(* Values (value.rs)                                                       *)
(***************************************************************************)
Nil == Val("Nil", 0)

Number(n) == Val("Number", n)

String(s) == Val("String", s)

Boolean(b) == Val("Boolean", b)

FunctionVal(f) == Val("Function", f)

UpvalueDescriptor(is_local, index) == [is_local |-> is_local, index |-> index]

(***************************************************************************)
(* Opcodes (opcode.rs): a name and up to two operands                      *)
(***************************************************************************)
Op(o, a, b) == [op |-> o, a |-> a, b |-> b]

Op0(o) == Op(o, 0, 0)

Op1(o, a) == Op(o, a, 0)

(***************************************************************************)
(* Strings used by the generator and the VM                                *)
(***************************************************************************)
CtorName == <<"k", "o", "n", "s", "t", "r", "u", "k", "t", "o", "r">>

SuperName == <<"s", "u", "p", "e", "r">>

LambdaName == <<"<", "l", "a", "m", "b", "d", "a", ">">>

NsSep == <<":", ":">>

(***************************************************************************)
(* AST (ast.rs; Try, Throw and Index as the generator uses them)           *)
(***************************************************************************)
Num(n) == [k |-> "Number", n |-> n]

Str(s) == [k |-> "String", s |-> s]

Bool(b) == [k |-> "Boolean", b |-> b]

Id(name) == [k |-> "Identifier", name |-> name]

Bin(operator, left, right) ==
    [k |-> "Binary", operator |-> operator, left |-> left, right |-> right]

Un(operator, operand) == [k |-> "Unary", operator |-> operator, operand |-> operand]

CallE(callee, arguments) == [k |-> "Call", callee |-> callee, arguments |-> arguments]

Fld(object, field) == [k |-> "FieldAccess", object |-> object, field |-> field]

ModAcc(namespace, symbol) == [k |-> "ModuleAccess", namespace |-> namespace, symbol |-> symbol]

Lam(params, body) == [k |-> "Lambda", params |-> params, body |-> body]

Idx(object, index) == [k |-> "Index", object |-> object, index |-> index]

RangeE(start, end) == [k |-> "Range", start |-> start, end |-> end]

This == [k |-> "This"]

Super(method) == [k |-> "Super", method |-> method]

VarDecl(name, initializer) ==
    [k |-> "VarDecl", name |-> name, initializer |-> initializer, is_exported |-> FALSE]

Assign(name, value) ==
    [k |-> "Assignment", target |-> [k |-> "Identifier", name |-> name], value |-> value]

AssignField(object, field, value) ==
    [k |-> "Assignment",
     target |-> [k |-> "FieldAccess", object |-> object, field |-> field],
     value |-> value]

ExprS(e) == [k |-> "Expression", e |-> e]

ModuleBlock(namespace, statements) ==
    [k |-> "ModuleBlock", namespace |-> namespace, statements |-> statements]

IfS(condition, then_branch, else_branch) ==
    [k |-> "If", condition |-> condition, then_branch |-> then_branch,
     else_branch |-> else_branch]

WhileS(condition, body) == [k |-> "While", condition |-> condition, body |-> body]

FuncDecl(name, params, body) ==
    [k |-> "FuncDecl", name |-> name, params |-> params, body |-> body,
     is_exported |-> FALSE]

Return(value) == [k |-> "Return", value |-> value]

Method(name, params, body) ==
    [k |-> "Method", name |-> name, params |-> params, body |-> body]

Constructor(params, body) == [k |-> "Constructor", params |-> params, body |-> body]

ClassDecl(name, extends, members) ==
    [k |-> "ClassDecl", name |-> name, extends |-> extends, members |-> members,
     is_exported |-> FALSE]

Import(path, alias) == [k |-> "Import", path |-> path, alias |-> alias]

\* a declaration carrying the export keyword
Exported(decl) == [decl EXCEPT !.is_exported = TRUE]

TryS(try_body, catch_var, catch_body) ==
    [k |-> "Try", try_body |-> try_body, catch_var |-> catch_var,
     catch_body |-> catch_body]

ThrowS(expression) == [k |-> "Throw", expression |-> expression]

(***************************************************************************)
(* Generator (generator.rs)                                                *)
(***************************************************************************)
make_context(in_function) ==
    [constants |-> <<>>, opcodes |-> <<>>, current_namespace |-> <<>>,
     in_function |-> in_function, local_slots |-> EmptyMap, next_local_slot |-> 0,
     parent_context |-> <<>>, upvalues |-> <<>>, error |-> FALSE]

Push(ctx, o) == [ctx EXCEPT !.opcodes = Append(@, o)]

GenPanic(ctx) == [ctx EXCEPT !.error = TRUE]

IsSimple(v) == v.t \in {"Number", "String", "Boolean", "Nil"}

ConstPosition(constants, value) ==
    LET hits == {i \in 1..Len(constants) :
                    /\ IsSimple(value)
                    /\ constants[i].t = value.t
                    /\ constants[i].v = value.v}
    IN  IF hits = {} THEN <<>> ELSE <<(CHOOSE i \in hits : \A j \in hits : i <= j) - 1>>

\* variant: the index returned for a new constant is one past its place
intern_constant_past_end(value, ctx) ==
    LET pos == ConstPosition(ctx.constants, value)
    IN  IF pos # <<>>
        THEN [ctx |-> ctx, idx |-> pos[1]]
        ELSE [ctx |-> [ctx EXCEPT !.constants = Append(@, value)],
              idx |-> Len(ctx.constants) + 1]

intern_constant(value, ctx) ==
    LET pos == ConstPosition(ctx.constants, value)
    IN  IF pos # <<>>
        THEN [ctx |-> ctx, idx |-> pos[1]]
        ELSE [ctx |-> [ctx EXCEPT !.constants = Append(@, value)],
              idx |-> Len(ctx.constants)]

intern_string(s, ctx) == intern_constant(String(s), ctx)

\* variant: the namespace is ignored
mangle_name_bare(name, ctx) == name

mangle_name(name, ctx) ==
    IF ctx.current_namespace # <<>>
    THEN ctx.current_namespace[1] \o NsSep \o name
    ELSE name

emit_jump(ctx, o) == [ctx |-> Push(ctx, Op1(o, 0)), pos |-> Len(ctx.opcodes)]

patch_jump(ctx, operand_pos) ==
    LET old == At(ctx.opcodes, operand_pos)
    IN  IF old.op \in {"Jump", "JumpIfTrue", "JumpIfFalse"}
        THEN [ctx EXCEPT !.opcodes = SetAt(@, operand_pos, Op1(old.op, Len(ctx.opcodes)))]
        ELSE GenPanic(ctx)

resolve_local(name, ctx) ==
    IF name \in DOMAIN ctx.local_slots THEN <<ctx.local_slots[name]>> ELSE <<>>

add_upvalue(ctx, name, is_local, index) ==
    LET hits == {i \in 1..Len(ctx.upvalues) : ctx.upvalues[i].name = name}
    IN  IF hits # {}
        THEN [ctx |-> ctx, res |-> <<(CHOOSE i \in hits : \A j \in hits : i <= j) - 1>>]
        ELSE [ctx |-> [ctx EXCEPT !.upvalues =
                          Append(@, [name |-> name, is_local |-> is_local, index |-> index])],
              res |-> <<Len(ctx.upvalues)>>]

RECURSIVE resolve_upvalue(_, _)
resolve_upvalue(name, ctx) ==
    IF ctx.parent_context = <<>>
    THEN [ctx |-> ctx, res |-> <<>>]
    ELSE LET parent_local == resolve_local(name, ctx.parent_context[1])
         IN  IF parent_local # <<>>
             THEN add_upvalue(ctx, name, TRUE, parent_local[1])
             ELSE LET r    == resolve_upvalue(name, ctx.parent_context[1])
                      ctx1 == [ctx EXCEPT !.parent_context = <<r.ctx>>]
                  IN  IF r.res # <<>>
                      THEN add_upvalue(ctx1, name, FALSE, r.res[1])
                      ELSE [ctx |-> ctx1, res |-> <<>>]

BinaryOps(operator) ==
    CASE operator = "Add" -> <<Op0("Add")>>
      [] operator = "Subtract" -> <<Op0("Sub")>>
      [] operator = "Multiply" -> <<Op0("Mul")>>
      [] operator = "Divide" -> <<Op0("Div")>>
      [] operator = "Modulo" -> <<Op0("Mod")>>
      [] operator = "Equal" -> <<Op0("Eql")>>
      [] operator = "NotEqual" -> <<Op0("Eql"), Op0("Not")>>
      [] operator = "Less" -> <<Op0("Less")>>
      [] operator = "LessEqual" -> <<Op0("Greater"), Op0("Not")>>
      [] operator = "Greater" -> <<Op0("Greater")>>
      [] operator = "GreaterEqual" -> <<Op0("Less"), Op0("Not")>>

RECURSIVE emit_statement(_, _), emit_statements(_, _), emit_expression(_, _),
          emit_expressions(_, _), emit_members(_, _), compile_function(_, _, _, _, _)

ParamSlots(params, first) ==
    [n \in {params[i] : i \in 1..Len(params)} |->
        first + (CHOOSE i \in 1..Len(params) :
                    /\ params[i] = n
                    /\ \A j \in 1..Len(params) : params[j] = n => j <= i) - 1]

PushNil(ctx) ==
    LET nil == intern_constant(Nil, ctx)
    IN  Push(nil.ctx, Op1("Constant", nil.idx))

FuncContext(params, parent_ctx, is_method) ==
    [constants |-> <<>>, opcodes |-> <<>>,
     current_namespace |-> parent_ctx.current_namespace,
     in_function |-> TRUE,
     local_slots |-> ParamSlots(params, IF is_method THEN 1 ELSE 0),
     next_local_slot |-> (IF is_method THEN 1 ELSE 0) + Len(params),
     parent_context |-> <<parent_ctx>>,
     upvalues |-> <<>>, error |-> FALSE]

\* compile_function once the body is generated into func_ctx: the implicit
\* return, the upvalue descriptors and the Function value
FunctionValue(name, params, func_ctx) ==
    LET c2    == IF name = CtorName THEN Push(func_ctx, Op1("GetLocal", 0))
                 ELSE PushNil(func_ctx)
        c3    == Push(c2, Op0("Return_"))
        descs == [i \in 1..Len(c3.upvalues) |->
                     UpvalueDescriptor(c3.upvalues[i].is_local, c3.upvalues[i].index)]
    IN  [fn |-> FunctionVal([arity |-> Len(params), opcodes |-> c3.opcodes,
                             constants |-> c3.constants, name |-> name,
                             upvalue_count |-> Len(descs),
                             upvalue_descriptors |-> descs]),
         error |-> c3.error]

compile_function(name, params, body, parent_ctx, is_method) ==
    FunctionValue(name, params,
                  emit_statements(body, FuncContext(params, parent_ctx, is_method)))

\* variant: a redeclared name stores into a fresh slot while the name stays
\* bound to its old slot
DeclareLocal_fresh_slot(name, ctx) ==
    LET old == name \in DOMAIN ctx.local_slots
        c2  == [ctx EXCEPT !.next_local_slot = @ + 1,
                           !.local_slots = IF old THEN @
                                           ELSE MapInsert(@, name, ctx.next_local_slot)]
    IN  Push(c2, Op1("DefineLocal", ctx.next_local_slot))

\* the slot a declaration stores into: the slot the name already has in this
\* function, or else the next free one
DeclareLocal(name, ctx) ==
    LET old  == name \in DOMAIN ctx.local_slots
        slot == IF old THEN ctx.local_slots[name] ELSE ctx.next_local_slot
        c2   == IF old THEN ctx
                ELSE [ctx EXCEPT !.next_local_slot = @ + 1,
                                 !.local_slots = MapInsert(@, name, slot)]
    IN  Push(c2, Op1("DefineLocal", slot))

emit_local_var_decl(name, initializer, ctx) ==
    DeclareLocal(name, IF initializer # <<>> THEN emit_expression(initializer[1], ctx)
                       ELSE PushNil(ctx))

EmitGlobalRef(o, name, ctx) ==
    LET r == intern_string(mangle_name(name, ctx), ctx)
    IN  Push(r.ctx, Op1(o, r.idx))

EmitNamed(o, name, ctx) ==
    LET r == intern_string(name, ctx)
    IN  Push(Push(r.ctx, Op0(o)), Op1("Constant", r.idx))

PushClosure(f, ctx) ==
    LET r  == intern_constant(f.fn, ctx)
        c1 == Push(r.ctx, Op("Closure", r.idx, f.fn.v.upvalue_count))
    IN  IF f.error THEN GenPanic(c1) ELSE c1

EmitClosure(name, params, body, ctx) ==
    PushClosure(compile_function(name, params, body, ctx, FALSE), ctx)

\* variant: the placeholder is patched with the address of the next instruction
ShortCircuitEnd_next_instruction(o, jump_addr, ctx) ==
    [ctx EXCEPT !.opcodes = SetAt(@, jump_addr, Op1(o, jump_addr + 1))]

\* end: the placeholder at jump_addr receives the address after the right operand
ShortCircuitEnd(o, jump_addr, ctx) ==
    [ctx EXCEPT !.opcodes = SetAt(@, jump_addr, Op1(o, Len(ctx.opcodes)))]

\* Dup; jump placeholder; Pop; the right operand
ShortCircuitRight(o, right, ctx) ==
    ShortCircuitEnd(o, Len(ctx.opcodes) + 1,
        emit_expression(right, Push(Push(Push(ctx, Op0("Dup")), Op1(o, 0)), Op0("Pop"))))

EmitShortCircuit(o, left, right, ctx) ==
    ShortCircuitRight(o, right, emit_expression(left, ctx))

emit_expressions(es, ctx) ==
    IF ctx.error \/ es = <<>> THEN ctx
    ELSE emit_expressions(Tail(es), emit_expression(Head(es), ctx))

\* a panic of the generator ends generation: nothing is emitted after it
emit_expression(e, ctx) ==
    IF ctx.error THEN ctx ELSE
    CASE e.k = "Number" ->
            LET r == intern_constant(Number(e.n), ctx)
            IN  Push(r.ctx, Op1("Constant", r.idx))
      [] e.k = "String" ->
            LET r == intern_constant(String(e.s), ctx)
            IN  Push(r.ctx, Op1("Constant", r.idx))
      [] e.k = "Boolean" ->
            LET r == intern_constant(Boolean(e.b), ctx)
            IN  Push(r.ctx, Op1("Constant", r.idx))
      [] e.k = "Identifier" ->
            LET local == resolve_local(e.name, ctx)
                up    == resolve_upvalue(e.name, ctx)
            IN  IF local # <<>> THEN Push(ctx, Op1("GetLocal", local[1]))
                ELSE IF ctx.in_function
                THEN IF up.res # <<>>
                     THEN Push(up.ctx, Op1("GetUpvalue", up.res[1]))
                     ELSE EmitGlobalRef("GetGlobal", e.name, up.ctx)
                ELSE EmitGlobalRef("GetGlobal", e.name, ctx)
      [] e.k = "Binary" ->
            IF e.operator = "And" THEN EmitShortCircuit("JumpIfFalse", e.left, e.right, ctx)
            ELSE IF e.operator = "Or"
            THEN EmitShortCircuit("JumpIfTrue", e.left, e.right, ctx)
            ELSE [emit_expression(e.right, emit_expression(e.left, ctx))
                     EXCEPT !.opcodes = @ \o BinaryOps(e.operator)]
      [] e.k = "Unary" ->
            Push(emit_expression(e.operand, ctx),
                 Op0(IF e.operator = "Negate" THEN "Negate" ELSE "Not"))
      [] e.k = "Call" ->
            Push(emit_expressions(e.arguments, emit_expression(e.callee, ctx)),
                 Op1("Call", Len(e.arguments)))
      [] e.k = "FieldAccess" ->
            IF e.object.k = "Identifier" /\ e.object.name = SuperName
            THEN EmitNamed("GetSuper", e.field, Push(ctx, Op1("GetLocal", 0)))
            ELSE EmitNamed("GetProperty", e.field, emit_expression(e.object, ctx))
      [] e.k = "ModuleAccess" ->
            LET r == intern_string(e.namespace \o NsSep \o e.symbol, ctx)
            IN  Push(r.ctx, Op1("GetGlobal", r.idx))
      [] e.k = "Lambda" -> EmitClosure(LambdaName, e.params, e.body, ctx)
      [] e.k = "Index" ->
            Push(emit_expression(e.index, emit_expression(e.object, ctx)), Op0("GetIndex"))
      [] e.k = "Range" ->
            LET bad == \/ e.start # <<>> /\ e.start[1].k # "Number"
                       \/ e.end # <<>> /\ e.end[1].k # "Number"
                r   == intern_constant(
                           Val("Range",
                               [start |-> IF e.start = <<>> THEN <<>> ELSE <<e.start[1].n>>,
                                end |-> IF e.end = <<>> THEN <<>> ELSE <<e.end[1].n>>]),
                           ctx)
            IN  IF bad THEN GenPanic(ctx) ELSE Push(r.ctx, Op1("Constant", r.idx))
      [] e.k = "This" ->
            IF ~ctx.in_function THEN GenPanic(ctx) ELSE Push(ctx, Op1("GetLocal", 0))
      [] e.k = "Super" -> EmitNamed("GetSuper", e.method, Push(ctx, Op1("GetLocal", 0)))

DefineMethodOf(name, f, ctx) ==
    LET r  == intern_constant(f.fn, ctx)
        nm == intern_string(name, r.ctx)
        c1 == Push(Push(nm.ctx, Op1("Constant", r.idx)), Op1("DefineMethod", nm.idx))
    IN  IF f.error THEN GenPanic(c1) ELSE c1

EmitMethod(name, params, body, ctx) ==
    DefineMethodOf(name, compile_function(name, params, body, ctx, TRUE), ctx)

emit_members(members, ctx) ==
    IF ctx.error \/ members = <<>> THEN ctx
    ELSE LET member == Head(members)
         IN  emit_members(Tail(members),
                 IF member.k = "Method"
                 THEN EmitMethod(member.name, member.params, member.body, ctx)
                 ELSE IF member.k = "Constructor"
                 THEN EmitMethod(CtorName, member.params, member.body, ctx)
                 ELSE ctx)

\* the store of an assignment to a name, the value being generated into ctx
AssignName(name, ctx) ==
    LET up == resolve_upvalue(name, ctx)
    IN  IF name \in DOMAIN ctx.local_slots
        THEN Push(ctx, Op1("SetLocal", ctx.local_slots[name]))
        ELSE IF ctx.in_function
        THEN IF up.res # <<>>
             THEN Push(up.ctx, Op1("SetUpvalue", up.res[1]))
             ELSE EmitGlobalRef("SetGlobal", name, up.ctx)
        ELSE EmitGlobalRef("SetGlobal", name, ctx)

EmitAssignment(assign, ctx) ==
    IF assign.target.k = "Identifier"
    THEN AssignName(assign.target.name, emit_expression(assign.value, ctx))
    ELSE EmitNamed("SetProperty", assign.target.field,
                   emit_expression(assign.target.object,
                                   emit_expression(assign.value, ctx)))

IfElse(stmt, jmp_false, jmp_end) ==
    patch_jump(IF stmt.else_branch # <<>>
               THEN emit_statements(stmt.else_branch[1], patch_jump(jmp_end.ctx, jmp_false))
               ELSE patch_jump(jmp_end.ctx, jmp_false),
               jmp_end.pos)

IfThen(stmt, jmp_false) ==
    IfElse(stmt, jmp_false.pos,
           emit_jump(emit_statements(stmt.then_branch, jmp_false.ctx), "Jump"))

EmitIf(stmt, ctx) ==
    IfThen(stmt, emit_jump(emit_expression(stmt.condition, ctx), "JumpIfFalse"))

\* variant: no jump back to the condition
WhileBody_once(stmt, cond_pos, jmp_false) ==
    patch_jump(emit_statements(stmt.body, jmp_false.ctx), jmp_false.pos)

WhileBody(stmt, cond_pos, jmp_false) ==
    patch_jump(Push(emit_statements(stmt.body, jmp_false.ctx), Op1("Jump", cond_pos)),
               jmp_false.pos)

EmitWhile(stmt, ctx) ==
    WhileBody(stmt, Len(ctx.opcodes),
              emit_jump(emit_expression(stmt.condition, ctx), "JumpIfFalse"))

\* the closure of a declared function is bound: a fresh local slot inside a
\* function, a global outside
DefineFunction(name, ctx) ==
    IF ctx.in_function
    THEN Push([ctx EXCEPT !.local_slots = MapInsert(@, name, ctx.next_local_slot),
                          !.next_local_slot = @ + 1],
              Op1("DefineLocal", ctx.next_local_slot))
    ELSE EmitGlobalRef("DefineGlobal", name, ctx)

EmitFuncDecl(stmt, ctx) ==
    IF stmt.is_exported /\ ctx.in_function THEN GenPanic(ctx)
    ELSE DefineFunction(stmt.name, EmitClosure(stmt.name, stmt.params, stmt.body, ctx))

EmitClassDecl(stmt, ctx) ==
    LET nm == intern_string(stmt.name, ctx)
        c1 == Push(Push(nm.ctx, Op0("Class")), Op1("Constant", nm.idx))
        c2 == IF stmt.extends # <<>>
              THEN Push(EmitGlobalRef("GetGlobal", stmt.extends[1], c1), Op0("Inherit"))
              ELSE c1
    IN  EmitGlobalRef("DefineGlobal", stmt.name, emit_members(stmt.members, c2))

\* the catch block: the handler's placeholder receives catch_start, the
\* thrown value is stored into the catch variable or popped, then the body
TryCatch(stmt, handler_pos, jump_over_catch) ==
    LET catch_start == Len(jump_over_catch.ctx.opcodes)
        c2          == [jump_over_catch.ctx EXCEPT !.opcodes =
                           SetAt(@, handler_pos, Op1("PushExceptionHandler", catch_start))]
        c3          == IF stmt.catch_var # <<>> THEN DeclareLocal(stmt.catch_var[1], c2)
                       ELSE Push(c2, Op0("Pop"))
    IN  patch_jump(emit_statements(stmt.catch_body, c3), jump_over_catch.pos)

\* variant: no PopExceptionHandler after the try body
EmitTry_no_pop(stmt, ctx) ==
    TryCatch(stmt, Len(ctx.opcodes),
             emit_jump(emit_statements(stmt.try_body,
                                       Push(ctx, Op1("PushExceptionHandler", 0))),
                       "Jump"))

EmitTry(stmt, ctx) ==
    TryCatch(stmt, Len(ctx.opcodes),
             emit_jump(Push(emit_statements(stmt.try_body,
                                            Push(ctx, Op1("PushExceptionHandler", 0))),
                            Op0("PopExceptionHandler")),
                       "Jump"))

emit_statements(stmts, ctx) ==
    IF ctx.error \/ stmts = <<>> THEN ctx
    ELSE emit_statements(Tail(stmts), emit_statement(Head(stmts), ctx))

\* a panic of the generator ends generation: nothing is emitted after it
emit_statement(stmt, ctx) ==
    IF ctx.error THEN ctx ELSE
    CASE stmt.k = "VarDecl" ->
            IF ctx.in_function
            THEN IF stmt.is_exported THEN GenPanic(ctx)
                 ELSE emit_local_var_decl(stmt.name, stmt.initializer, ctx)
            ELSE EmitGlobalRef("DefineGlobal", stmt.name,
                     IF stmt.initializer # <<>>
                     THEN emit_expression(stmt.initializer[1], ctx)
                     ELSE PushNil(ctx))
      [] stmt.k = "Assignment" -> EmitAssignment(stmt, ctx)
      [] stmt.k = "Expression" -> emit_expression(stmt.e, ctx)
      [] stmt.k = "ModuleBlock" ->
            [emit_statements(stmt.statements,
                             [ctx EXCEPT !.current_namespace = <<stmt.namespace>>])
                EXCEPT !.current_namespace = ctx.current_namespace]
      [] stmt.k = "If" -> EmitIf(stmt, ctx)
      [] stmt.k = "While" -> EmitWhile(stmt, ctx)
      [] stmt.k = "FuncDecl" -> EmitFuncDecl(stmt, ctx)
      [] stmt.k = "Return" ->
            IF ~ctx.in_function THEN GenPanic(ctx)
            ELSE Push(IF stmt.value # <<>> THEN emit_expression(stmt.value[1], ctx)
                      ELSE PushNil(ctx),
                      Op0("Return_"))
      [] stmt.k = "Import" -> ctx
      [] stmt.k = "ClassDecl" -> EmitClassDecl(stmt, ctx)
      [] stmt.k = "Try" -> EmitTry(stmt, ctx)
      [] stmt.k = "Throw" -> Push(emit_expression(stmt.expression, ctx), Op0("Throw"))

\* variant: the top-level code is left without its closing Halt
generate_unfinished(program) == emit_statements(program, make_context(FALSE))

generate(program) == Push(emit_statements(program, make_context(FALSE)), Op0("Halt"))

(***************************************************************************)
(* Module files.  The directory of the program holds the files m.pns and   *)
(* n.pns; a path is the file name without its extension.  m exports x and  *)
(* f and keeps w private; n imports m and exports y, computed from m.x.    *)
(***************************************************************************)
Files ==
    (<<"m">> :> << Exported(VarDecl(<<"x">>, <<Num(1)>>)),
                   VarDecl(<<"w">>, <<Num(2)>>),
                   Exported(FuncDecl(<<"f">>, <<>>, << Return(<<Id(<<"x">>)>>) >>)) >>)
    @@
    (<<"n">> :> << Import(<<"m">>, <<>>),
                   Exported(VarDecl(<<"y">>, <<Fld(Id(<<"m">>), <<"x">>)>>)) >>)
    @@
    (<<"q">> :> << [k |-> "SyntaxError"] >>)
    @@
    (<<"u">> :> << >>)

\* the files fs::read_to_string fails on
Unreadable == {<<"u">>}

\* the modules built into the interpreter (stdlib::is_embedded_stdlib)
Embedded == {<<"s", "t", "d", "/", "j">>}

(***************************************************************************)
(* Symbol table (symbol_table/mod.rs).  A scope id is the zero-based index *)
(* of the scope in scopes.                                                 *)
(***************************************************************************)
Symbol(name, kind, is_exported) ==
    [name |-> name, kind |-> kind, is_exported |-> is_exported, module_scope_id |-> <<>>]

\* the symbol of an imported namespace: it carries the scope of the module
new_module(name, scope_id) ==
    [name |-> name, kind |-> "Module", is_exported |-> FALSE, module_scope_id |-> <<scope_id>>]

Scope(parent) == [parent |-> parent, symbols |-> EmptyMap]

SymbolTableNew == [scopes |-> <<Scope(<<>>)>>, current_scope |-> 0]

\* the id of the new scope is Len(table.scopes), the old next_scope_id
push_scope(table) ==
    [scopes |-> Append(table.scopes, Scope(<<table.current_scope>>)),
     current_scope |-> Len(table.scopes)]

define_in_scope(table, scope_id, symbol) ==
    IF symbol.name \in DOMAIN At(table.scopes, scope_id).symbols
    THEN [ok |-> FALSE, table |-> table]
    ELSE [ok |-> TRUE,
          table |-> [table EXCEPT !.scopes[scope_id + 1].symbols =
                                     MapInsert(@, symbol.name, symbol)]]

define(table, symbol) == define_in_scope(table, table.current_scope, symbol)

lookup_in_scope(table, scope_id, name) ==
    IF name \in DOMAIN At(table.scopes, scope_id).symbols
    THEN <<At(table.scopes, scope_id).symbols[name]>>
    ELSE <<>>

RECURSIVE LookupFrom(_, _, _)
LookupFrom(table, current_id, name) ==
    IF lookup_in_scope(table, current_id, name) # <<>>
    THEN lookup_in_scope(table, current_id, name)
    ELSE IF At(table.scopes, current_id).parent # <<>>
    THEN LookupFrom(table, At(table.scopes, current_id).parent[1], name)
    ELSE <<>>

lookup(table, name) == LookupFrom(table, table.current_scope, name)

(***************************************************************************)
(* Module resolver (module/loader.rs, module/resolver.rs, module/mod.rs).  *)
(* Native modules are left out: no file here is native.  The file q.pns    *)
(* does not parse and the file u.pns cannot be read.                       *)
(***************************************************************************)
PnsExt == <<".", "p", "n", "s">>

EndsWith(str, suffix) ==
    /\ Len(str) >= Len(suffix)
    /\ SubSeq(str, Len(str) - Len(suffix) + 1, Len(str)) = suffix

\* str::strip_suffix, the string itself when it does not end with suffix
StripSuffix(str, suffix) ==
    IF EndsWith(str, suffix) THEN SubSeq(str, 1, Len(str) - Len(suffix)) ELSE str

\* str.split('/').last()
RECURSIVE LastPart(_)
LastPart(str) ==
    IF \E i \in 1..Len(str) : str[i] = "/"
    THEN LastPart(Tail(str))
    ELSE str

\* the path of the module file, or none when no such file exists
resolve_path(import_path) ==
    IF StripSuffix(import_path, PnsExt) \in DOMAIN Files
    THEN <<StripSuffix(import_path, PnsExt)>>
    ELSE <<>>

extract_namespace(import_path, alias) ==
    IF alias # <<>> THEN alias[1] ELSE StripSuffix(LastPart(import_path), PnsExt)

IsDeclaration(stmt) == stmt.k \in {"VarDecl", "FuncDecl", "ClassDecl"}

SymbolKindOf(stmt) ==
    CASE stmt.k = "VarDecl" -> "Variable"
      [] stmt.k = "FuncDecl" -> "Function"
      [] stmt.k = "ClassDecl" -> "Class"

RECURSIVE collect_exports(_)
collect_exports(ast) ==
    IF ast = <<>> THEN <<>>
    ELSE IF IsDeclaration(Head(ast)) /\ Head(ast).is_exported
    THEN <<Head(ast).name>> \o collect_exports(Tail(ast))
    ELSE collect_exports(Tail(ast))

\* the first export that its scope already holds ends the registration
RECURSIVE register_exports_in_symbol_table(_, _, _)
RegisterExport(ast, scope_id, defined) ==
    IF defined.ok
    THEN register_exports_in_symbol_table(Tail(ast), scope_id, defined.table)
    ELSE defined

register_exports_in_symbol_table(ast, scope_id, table) ==
    IF ast = <<>> THEN [ok |-> TRUE, table |-> table]
    ELSE IF IsDeclaration(Head(ast)) /\ Head(ast).is_exported
    THEN RegisterExport(ast, scope_id,
             define_in_scope(table, scope_id,
                             Symbol(Head(ast).name, SymbolKindOf(Head(ast)), TRUE)))
    ELSE register_exports_in_symbol_table(Tail(ast), scope_id, table)

(***************************************************************************)
(* Module loader (module/loader.rs): the stack of the modules being loaded *)
(* and the set of the paths whose loading has ended.                       *)
(***************************************************************************)
ModuleLoaderNew == [loading_stack |-> <<>>, resolved_cache |-> {}]

RelPrefix == <<".", "/">>

\* Path::canonicalize: the one spelling of the path of an existing file, or
\* none for a path that names no file
canonicalize(path) ==
    LET bare  == IF Len(path) >= 2 /\ SubSeq(path, 1, 2) = RelPrefix
                 THEN SubSeq(path, 3, Len(path)) ELSE path
        named == StripSuffix(bare, PnsExt)
    IN  IF named \in DOMAIN Files THEN <<named>> ELSE <<>>

\* the path end_loading, is_loading and is_loaded work with: an embedded
\* module's path as it is, the canonical path, or the path itself when it
\* cannot be canonicalized
path_to_use(path) ==
    IF path \in Embedded THEN path
    ELSE IF canonicalize(path) # <<>> THEN canonicalize(path)[1]
    ELSE path

Contains(vec, item) == \E i \in 1..Len(vec) : vec[i] = item

Began(ok, err, loader) == [ok |-> ok, err |-> err, loader |-> loader]

\* variant: the path is pushed without the check for a cycle
begin_loading_unchecked(loader, path) ==
    IF path \notin Embedded /\ canonicalize(path) = <<>>
    THEN Began(FALSE, "canonicalize", loader)
    ELSE Began(TRUE, "", [loader EXCEPT !.loading_stack = Append(@, path_to_use(path))])

begin_loading(loader, path) ==
    IF path \notin Embedded /\ canonicalize(path) = <<>>
    THEN Began(FALSE, "canonicalize", loader)
    ELSE IF Contains(loader.loading_stack, path_to_use(path))
    THEN Began(FALSE, "cycle", loader)
    ELSE Began(TRUE, "", [loader EXCEPT !.loading_stack = Append(@, path_to_use(path))])

\* iter().position(): the first position of the item, zero-based
Position0(vec, item) ==
    (CHOOSE i \in 1..Len(vec) : vec[i] = item /\ \A j \in 1..(i - 1) : vec[j] # item) - 1

end_loading(loader, path) ==
    [loading_stack |->
        IF Contains(loader.loading_stack, path_to_use(path))
        THEN SubSeq(loader.loading_stack, 1, Position0(loader.loading_stack, path_to_use(path)))
             \o SubSeq(loader.loading_stack,
                       Position0(loader.loading_stack, path_to_use(path)) + 2,
                       Len(loader.loading_stack))
        ELSE loader.loading_stack,
     resolved_cache |-> loader.resolved_cache \cup {path_to_use(path)}]

is_loading(loader, path) == Contains(loader.loading_stack, path_to_use(path))

\* read_module_file and the parser: the statements of the file, or the error
read_module_file(path) == IF path \in Unreadable THEN <<>> ELSE <<Files[path]>>

parse(source) == IF \E i \in 1..Len(source) : source[i].k = "SyntaxError" THEN <<>> ELSE <<source>>

LoadedModule(namespace, ast, exports, file_path, scope_id) ==
    [namespace |-> namespace, ast |-> ast, exports |-> exports,
     file_path |-> file_path, scope_id |-> scope_id]

\* the outcome of load_module: the module when ok or else the error, and the
\* cache, the symbol table and the loader as the call leaves them
Loaded(ok, module, cache, table, loader, err) ==
    [ok |-> ok, module |-> module, loaded_modules |-> cache, table |-> table,
     loader |-> loader, err |-> err]

\* steps 10 to 13: a failed registration returns with the path still on the
\* loading stack; otherwise the loading ends and the module is cached
CacheModule(module, cache, registered, loader) ==
    IF registered.ok
    THEN Loaded(TRUE, module, MapInsert(cache, module.file_path, module), registered.table,
                end_loading(loader, module.file_path), "")
    ELSE Loaded(FALSE, <<>>, cache, registered.table, loader, "register")

\* steps 5 to 13 of load_module, after begin_loading: the file is read and
\* parsed (an error returns at once), its scope is pushed, its exports are
\* registered, the loading ends, the module is cached
LoadFile(import_path, alias, module_path, cache, table, loader) ==
    IF read_module_file(module_path) = <<>>
    THEN Loaded(FALSE, <<>>, cache, table, loader, "read")
    ELSE IF parse(read_module_file(module_path)[1]) = <<>>
    THEN Loaded(FALSE, <<>>, cache, table, loader, "parse")
    ELSE CacheModule(LoadedModule(extract_namespace(import_path, alias), Files[module_path],
                                  collect_exports(Files[module_path]), module_path,
                                  Len(table.scopes)),
                     cache,
                     register_exports_in_symbol_table(Files[module_path], Len(table.scopes),
                                                      push_scope(table)),
                     loader)

\* step 4: begin_loading(..)?
BeginLoad(import_path, alias, module_path, cache, table, began) ==
    IF began.ok
    THEN LoadFile(import_path, alias, module_path, cache, table, began.loader)
    ELSE Loaded(FALSE, <<>>, cache, table, began.loader, began.err)

LoadResolved(import_path, alias, module_path, cache, table, loader) ==
    IF module_path = <<>> THEN Loaded(FALSE, <<>>, cache, table, loader, "not_found")
    ELSE IF module_path[1] \in DOMAIN cache
    THEN Loaded(TRUE,
                IF alias # <<>> THEN [cache[module_path[1]] EXCEPT !.namespace = alias[1]]
                ELSE cache[module_path[1]],
                cache, table, loader, "")
    ELSE BeginLoad(import_path, alias, module_path[1], cache, table,
                   begin_loading(loader, module_path[1]))

load_module(import_path, alias, cache, table, loader) ==
    LoadResolved(import_path, alias, resolve_path(import_path), cache, table, loader)

merge_module_ast(main_ast, module) ==
    Append(main_ast, ModuleBlock(module.namespace, module.ast))

(***************************************************************************)
(* Ponos::process_imports (ponos.rs).  Only the import statements at the   *)
(* top level of the program being run are collected; the statements of a   *)
(* loaded module are appended as a block and not looked into.              *)
(***************************************************************************)
\* no program, its module blocks included, has more top-level statements
MaxStatements == 8

IsImport(stmt) == stmt.k = "Import"

IsModuleBlock(stmt) == stmt.k = "ModuleBlock"

IsOtherStatement(stmt) == stmt.k # "ModuleBlock"

\* the program, the resolver's cache and loader, the symbol table and the
\* errors written to stderr so far
Flat(ast, cache, table, loader, reported) ==
    [ast |-> ast, loaded_modules |-> cache, table |-> table, loader |-> loader,
     reported |-> reported]

RECURSIVE LoadImports(_, _, _, _, _, _)
\* one import: a loaded module is registered as a Module symbol in the
\* current scope (a refused definition is only a warning) and its block is
\* appended; a failed load is only reported
ImportLoaded(imports, ast, result, reported) ==
    IF result.ok
    THEN LoadImports(imports,
                     merge_module_ast(ast, result.module),
                     result.loaded_modules,
                     define(result.table,
                            new_module(result.module.namespace,
                                       result.module.scope_id)).table,
                     result.loader, reported)
    ELSE LoadImports(imports, ast, result.loaded_modules, result.table, result.loader,
                     Append(reported, result.err))

LoadImports(imports, ast, cache, table, loader, reported) ==
    IF imports = <<>> THEN Flat(ast, cache, table, loader, reported)
    ELSE ImportLoaded(Tail(imports), ast,
                      load_module(Head(imports).path, Head(imports).alias, cache, table,
                                  loader),
                      reported)

\* module blocks first, then everything else, each in its order
Reorder(flat) ==
    [flat EXCEPT !.ast = SelectSeq(@, IsModuleBlock) \o SelectSeq(@, IsOtherStatement)]

process_imports(ast, cache, table, loader, reported) ==
    Reorder(LoadImports(SelectSeq(ast, IsImport), ast, cache, table, loader, reported))

(***************************************************************************)
(* Name resolver (name_resolver.rs).  A resolution yields the rewritten    *)
(* node, or fails.                                                         *)
(***************************************************************************)
Resolved(node) == [ok |-> TRUE, node |-> node]

Unresolved == [ok |-> FALSE, node |-> <<>>]

\* the ? operator: go on with the rewritten node, or return the error
Bind(result, Continue(_)) == IF result.ok THEN Continue(result.node) ELSE Unresolved

RECURSIVE resolve_statement(_, _)
RECURSIVE resolve_expression(_, _)
RECURSIVE ResolveEach(_, _, _)

\* a for loop over statements (IsStatement) or expressions
ResolveRest(first, rest, table, IsStatement) ==
    Bind(first, LAMBDA node :
        Bind(ResolveEach(rest, table, IsStatement), LAMBDA nodes :
            Resolved(<<node>> \o nodes)))

ResolveEach(nodes, table, IsStatement) ==
    IF nodes = <<>> THEN Resolved(<<>>)
    ELSE ResolveRest(IF IsStatement THEN resolve_statement(Head(nodes), table)
                     ELSE resolve_expression(Head(nodes), table),
                     Tail(nodes), table, IsStatement)

ExportedMember(access, symbol) ==
    IF symbol # <<>> /\ symbol[1].is_exported
    THEN Resolved(ModAcc(access.object.name, access.field))
    ELSE Unresolved

ModuleMember(access, module_symbol, table) ==
    IF module_symbol = <<>> THEN Resolved(access)
    ELSE IF module_symbol[1].kind # "Module" THEN Resolved(access)
    ELSE IF module_symbol[1].module_scope_id = <<>> THEN Unresolved
    ELSE ExportedMember(access,
             lookup_in_scope(table, module_symbol[1].module_scope_id[1], access.field))

\* the object of the access has been resolved
ResolveAccess(access, table) ==
    IF access.object.k = "Identifier"
    THEN ModuleMember(access, lookup(table, access.object.name), table)
    ELSE Resolved(access)

resolve_expression(expr, table) ==
    CASE expr.k = "Binary" ->
            Bind(resolve_expression(expr.left, table), LAMBDA left :
                Bind(resolve_expression(expr.right, table), LAMBDA right :
                    Resolved([expr EXCEPT !.left = left, !.right = right])))
      [] expr.k = "Unary" ->
            Bind(resolve_expression(expr.operand, table), LAMBDA operand :
                Resolved([expr EXCEPT !.operand = operand]))
      [] expr.k = "Call" ->
            Bind(resolve_expression(expr.callee, table), LAMBDA callee :
                Bind(ResolveEach(expr.arguments, table, FALSE), LAMBDA arguments :
                    Resolved([expr EXCEPT !.callee = callee, !.arguments = arguments])))
      [] expr.k = "FieldAccess" ->
            Bind(resolve_expression(expr.object, table), LAMBDA object :
                ResolveAccess([expr EXCEPT !.object = object], table))
      [] expr.k = "Lambda" ->
            Bind(ResolveEach(expr.body, table, TRUE), LAMBDA body :
                Resolved([expr EXCEPT !.body = body]))
      [] OTHER -> Resolved(expr)

resolve_statement(stmt, table) ==
    CASE stmt.k = "VarDecl" ->
            IF stmt.initializer # <<>>
            THEN Bind(resolve_expression(stmt.initializer[1], table), LAMBDA init :
                     Resolved([stmt EXCEPT !.initializer = <<init>>]))
            ELSE Resolved(stmt)
      [] stmt.k = "FuncDecl" ->
            Bind(ResolveEach(stmt.body, table, TRUE), LAMBDA body :
                Resolved([stmt EXCEPT !.body = body]))
      [] stmt.k = "Assignment" ->
            Bind(resolve_expression(stmt.value, table), LAMBDA value :
                IF stmt.target.k = "FieldAccess"
                THEN Bind(resolve_expression(stmt.target.object, table), LAMBDA object :
                         Resolved([stmt EXCEPT !.value = value, !.target.object = object]))
                ELSE Resolved([stmt EXCEPT !.value = value]))
      [] stmt.k = "If" ->
            Bind(resolve_expression(stmt.condition, table), LAMBDA condition :
                Bind(ResolveEach(stmt.then_branch, table, TRUE), LAMBDA then_branch :
                    IF stmt.else_branch # <<>>
                    THEN Bind(ResolveEach(stmt.else_branch[1], table, TRUE),
                              LAMBDA else_branch :
                                  Resolved([stmt EXCEPT !.condition = condition,
                                                        !.then_branch = then_branch,
                                                        !.else_branch = <<else_branch>>]))
                    ELSE Resolved([stmt EXCEPT !.condition = condition,
                                               !.then_branch = then_branch])))
      [] stmt.k = "While" ->
            Bind(resolve_expression(stmt.condition, table), LAMBDA condition :
                Bind(ResolveEach(stmt.body, table, TRUE), LAMBDA body :
                    Resolved([stmt EXCEPT !.condition = condition, !.body = body])))
      [] stmt.k = "Return" ->
            IF stmt.value # <<>>
            THEN Bind(resolve_expression(stmt.value[1], table), LAMBDA value :
                     Resolved([stmt EXCEPT !.value = <<value>>]))
            ELSE Resolved(stmt)
      [] stmt.k = "Expression" ->
            Bind(resolve_expression(stmt.e, table), LAMBDA expr :
                Resolved([stmt EXCEPT !.e = expr]))
      [] stmt.k = "ModuleBlock" ->
            Bind(ResolveEach(stmt.statements, table, TRUE), LAMBDA statements :
                Resolved([stmt EXCEPT !.statements = statements]))
      [] OTHER -> Resolved(stmt)

resolve(ast, table) == ResolveEach(ast, table, TRUE)

(***************************************************************************)
(* VM state (vm.rs, struct VM and struct CallFrame)                        *)
(*                                                                         *)
(* open_upvalues holds every upvalue cell ever created (capture_upvalue is *)
(* the only place that creates one and nothing removes one); a cell is     *)
(* named by its position in that vector.  instances is the heap of         *)
(* Rc<RefCell<Instance>> objects; allocs counts the Rc allocations of      *)
(* closures and bound methods and gives each its identity.  handlers is    *)
(* the exception handler stack.  status and error record how execute       *)
(* ended (a Rust panic ends the run); prog names the program being run.    *)
(* pending is what the host program has still to pass to run_source after  *)
(* it; loaded_modules is the cache of the module resolver, symbol_table    *)
(* the symbol table of the interpreter, and flattened lists the programs   *)
(* handed to the generator, one for each run_source.  loader is the        *)
(* module loader of the resolver and reported lists the errors             *)
(* process_imports has written to stderr.  returned is the outcome of the  *)
(* last call of begin_loading or end_loading made on the loader from       *)
(* outside load_module, and begun the paths such a begin_loading has       *)
(* succeeded for with no end_loading since.                                *)
(* caught remembers the handler the last Throw resumed at, until the next  *)
(* instruction has executed.                                               *)
(***************************************************************************)
VARIABLES stack, globals, frames, open_upvalues, handlers, instances, allocs,
          status, error, prog, caught,
          pending, loaded_modules, symbol_table, flattened,
          loader, reported, begun, returned,
          json_value, json_text, json_parsed

vars == <<stack, globals, frames, open_upvalues, handlers, instances, allocs,
          status, error, prog, caught,
          pending, loaded_modules, symbol_table, flattened,
          loader, reported, begun, returned,
          json_value, json_text, json_parsed>>

\* the value handed to the native function json_stringify, the text it
\* returned once it has, and the value json_parse made of that text
native_json == <<json_value, json_text, json_parsed>>

\* the calls made on the module loader from outside load_module
loader_calls == <<begun, returned>>

\* what the virtual machine never touches: the interpreter around it
host == <<prog, pending, loaded_modules, symbol_table, flattened, loader, reported,
          loader_calls, native_json>>

CallFrame(opcodes, constants, base, upvalues) ==
    [opcodes |-> opcodes, constants |-> constants, ip |-> 0, base |-> base,
     upvalues |-> upvalues]

Open(idx) == [state |-> "Open", idx |-> idx, val |-> Nil]

Closed(val) == [state |-> "Closed", idx |-> 0, val |-> val]

Running == status = "running" /\ frames # <<>>

frame_idx == Len(frames) - 1

Frame == frames[Len(frames)]

InCode == Frame.ip < Len(Frame.opcodes)

cur_opcode == At(Frame.opcodes, Frame.ip)

Is(o) == Running /\ InCode /\ cur_opcode.op = o

Last(v) == v[Len(v)]

Most(v) == SubSeq(v, 1, Len(v) - 1)

\* the end of the loop body: the frame that executed the instruction, if it
\* is still there, moves to the next instruction
Advance(frs) ==
    IF frame_idx < Len(frs) THEN [frs EXCEPT ![frame_idx + 1].ip = @ + 1] ELSE frs

\* a Rust panic: the run ends here
Panic(msg) ==
    /\ status' = "panic"
    /\ error' = msg
    /\ caught' = <<>>
    /\ UNCHANGED <<globals, frames, open_upvalues, handlers, instances, allocs, host>>

\* an instruction that only changes the operand stack
StackStep(new_stack) ==
    /\ stack' = new_stack
    /\ frames' = Advance(frames)
    /\ caught' = <<>>
    /\ UNCHANGED <<globals, open_upvalues, handlers, instances, allocs, status, error, host>>

\* the interpreter after Ponos::new
NewInterpreter ==
    /\ stack = <<>>
    /\ globals = EmptyMap
    /\ frames = <<>>
    /\ open_upvalues = <<>>
    /\ handlers = <<>>
    /\ instances = <<>>
    /\ allocs = 0
    /\ status = "idle"
    /\ error = ""
    /\ prog = ""
    /\ caught = <<>>
    /\ pending = <<>>
    /\ loaded_modules = EmptyMap
    /\ symbol_table = SymbolTableNew
    /\ flattened = <<>>
    /\ loader = ModuleLoaderNew
    /\ reported = <<>>
    /\ begun = {}
    /\ returned = <<>>

Init ==
    /\ NewInterpreter
    /\ json_value = Nil
    /\ json_text = <<>>
    /\ json_parsed = <<>>

(***************************************************************************)
(* Stack, arithmetic and logic                                             *)
(***************************************************************************)
Constant ==
    /\ Is("Constant")
    /\ StackStep(Append(stack, At(Frame.constants, cur_opcode.a)))

Pop ==
    /\ Is("Pop")
    /\ IF stack = <<>> THEN Panic("stack") /\ UNCHANGED stack
       ELSE StackStep(Most(stack))

Dup ==
    /\ Is("Dup")
    /\ IF stack = <<>> THEN Panic("stack") /\ UNCHANGED stack
       ELSE StackStep(Append(stack, Last(stack)))

Negate ==
    /\ Is("Negate")
    /\ IF stack = <<>> THEN Panic("stack") /\ UNCHANGED stack
       ELSE IF Last(stack).t = "Number"
       THEN StackStep(Append(Most(stack), Number(-Last(stack).v)))
       ELSE Panic("type") /\ stack' = Most(stack)

RECURSIVE Digits(_)
Digits(n) ==
    IF n < 10 THEN <<At(<<"0", "1", "2", "3", "4", "5", "6", "7", "8", "9">>, n)>>
    ELSE Digits(n \div 10) \o Digits(n % 10)

\* format!("{}", n) for an integral f64
NumToString(n) == IF n < 0 THEN <<"-">> \o Digits(-n) ELSE Digits(n)

binary_add_op ==
    /\ Is("Add")
    /\ IF Len(stack) < 2 THEN Panic("stack") /\ stack' = <<>>
       ELSE LET right == Last(stack)
                left  == Last(Most(stack))
                rest  == Most(Most(stack))
            IN  CASE left.t = "String" /\ right.t = "String" ->
                        StackStep(Append(rest, String(left.v \o right.v)))
                  [] left.t = "Number" /\ right.t = "Number" ->
                        StackStep(Append(rest, Number(left.v + right.v)))
                  [] left.t = "Number" /\ right.t = "String" ->
                        StackStep(Append(rest, String(NumToString(left.v) \o right.v)))
                  [] left.t = "String" /\ right.t = "Number" ->
                        StackStep(Append(rest, String(left.v \o NumToString(right.v))))
                  [] OTHER -> Panic("type") /\ stack' = rest

\* Sub and Mul; Div and Mod need the non-integral f64 values and are not modelled
binary_number_op ==
    /\ Is("Sub") \/ Is("Mul")
    /\ IF stack = <<>> THEN Panic("stack") /\ UNCHANGED stack
       ELSE IF Last(stack).t # "Number" THEN Panic("type") /\ stack' = Most(stack)
       ELSE IF Len(stack) < 2 THEN Panic("stack") /\ stack' = <<>>
       ELSE LET b    == Last(stack)
                a    == Last(Most(stack))
                rest == Most(Most(stack))
            IN  IF a.t # "Number" THEN Panic("type") /\ stack' = rest
                ELSE StackStep(Append(rest,
                         Number(IF cur_opcode.op = "Sub" THEN a.v - b.v ELSE a.v * b.v)))

True_ ==
    /\ Is("True_")
    /\ StackStep(Append(stack, Boolean(TRUE)))

False_ ==
    /\ Is("False_")
    /\ StackStep(Append(stack, Boolean(FALSE)))

RECURSIVE is_equal(_, _)
is_equal(a, b) ==
    CASE a.t = "Number" /\ b.t = "Number" -> a.v = b.v
      [] a.t = "String" /\ b.t = "String" -> a.v = b.v
      [] a.t = "Boolean" /\ b.t = "Boolean" -> a.v = b.v
      [] a.t = "Nil" /\ b.t = "Nil" -> TRUE
      [] a.t = "Range" /\ b.t = "Range" -> a.v = b.v
      [] a.t = "Instance" /\ b.t = "Instance" -> a.v = b.v
      [] a.t = "Array" /\ b.t = "Array" ->
            /\ Len(a.v) = Len(b.v)
            /\ \A i \in 1..Len(a.v) : is_equal(a.v[i], b.v[i])
      [] a.t = "Dict" /\ b.t = "Dict" ->
            /\ Cardinality(DOMAIN a.v) = Cardinality(DOMAIN b.v)
            /\ \A key \in DOMAIN a.v : key \in DOMAIN b.v /\ is_equal(a.v[key], b.v[key])
      [] OTHER -> FALSE

\* String order of Rust: lexicographic by code point; the code points of the
\* model are compared by their position in Alphabet
Alphabet == <<"\"", "0", "1", "2", "3", "4", "5", "6", "7", "8", "9", ":", "<", ">", "\\",
              "a", "b", "c", "d", "e", "f", "g", "h", "i", "j", "k", "l", "m",
              "n", "o", "p", "q", "r", "s", "t", "u", "v", "w", "x", "y", "z">>

CodePoint(ch) == CHOOSE i \in 1..Len(Alphabet) : Alphabet[i] = ch

RECURSIVE StrGreater(_, _)
StrGreater(x, y) ==
    IF x = <<>> THEN FALSE
    ELSE IF y = <<>> THEN TRUE
    ELSE IF Head(x) = Head(y) THEN StrGreater(Tail(x), Tail(y))
    ELSE CodePoint(Head(x)) > CodePoint(Head(y))

is_greater(a, b) ==
    CASE a.t = "Number" /\ b.t = "Number" -> a.v > b.v
      [] a.t = "String" /\ b.t = "String" -> StrGreater(a.v, b.v)
      [] a.t = "Boolean" /\ b.t = "Boolean" -> a.v /\ ~b.v
      [] OTHER -> FALSE

binary_logical_op ==
    /\ Is("Eql") \/ Is("Greater") \/ Is("Less")
    /\ IF Len(stack) < 2 THEN Panic("stack") /\ stack' = <<>>
       ELSE LET b    == Last(stack)
                a    == Last(Most(stack))
                rest == Most(Most(stack))
            IN  StackStep(Append(rest, Boolean(
                    CASE cur_opcode.op = "Eql" -> is_equal(a, b)
                      [] cur_opcode.op = "Greater" -> is_greater(a, b)
                      [] cur_opcode.op = "Less" -> ~is_greater(a, b) /\ ~is_equal(a, b))))

Not ==
    /\ Is("Not")
    /\ IF stack = <<>> THEN Panic("stack") /\ UNCHANGED stack
       ELSE IF Last(stack).t = "Boolean"
       THEN StackStep(Append(Most(stack), Boolean(~Last(stack).v)))
       ELSE Panic("type") /\ stack' = Most(stack)

(***************************************************************************)
(* Locals                                                                  *)
(***************************************************************************)
\* Vec::resize / the push loop: grow with Nil until index exists
GrowTo(v, index) == v \o [i \in 1..(index + 1 - Len(v)) |-> Nil]

GetLocal ==
    /\ Is("GetLocal")
    /\ LET index == Frame.base + cur_opcode.a
       IN  StackStep(Append(stack, IF index < Len(stack) THEN At(stack, index) ELSE Nil))

\* variant: the value is stored but not popped
StoreLocal_keeps_top(v, base, slot) ==
    SetAt(GrowTo(v, base + slot), base + slot, Last(v))

StoreLocal(v, base, slot) ==
    LET value == Last(v)
        index == base + slot
    IN  SetAt(GrowTo(Most(v), index), index, value)

SetLocal ==
    /\ Is("SetLocal")
    /\ IF stack = <<>> THEN Panic("stack") /\ UNCHANGED stack
       ELSE StackStep(StoreLocal(stack, Frame.base, cur_opcode.a))

DefineLocal ==
    /\ Is("DefineLocal")
    /\ IF stack = <<>> THEN Panic("stack") /\ UNCHANGED stack
       ELSE StackStep(StoreLocal(stack, Frame.base, cur_opcode.a))

(***************************************************************************)
(* Closures and upvalues                                                   *)
(***************************************************************************)
\* variant: every capture creates a new cell
capture_upvalue_new_cell(open, stack_index) ==
    [open |-> Append(open, Open(stack_index)), cell |-> Len(open) + 1]

\* capture_upvalue: the first Open cell on stack_index, or a new cell pushed
\* on open_upvalues; the result names the cell and gives the new vector
capture_upvalue(open, stack_index) ==
    LET hits == {i \in 1..Len(open) :
                    open[i].state = "Open" /\ open[i].idx = stack_index}
    IN  IF hits # {}
        THEN [open |-> open, cell |-> CHOOSE i \in hits : \A j \in hits : i <= j]
        ELSE [open |-> Append(open, Open(stack_index)), cell |-> Len(open) + 1]

\* the loop over function.upvalue_descriptors of the Closure instruction
RECURSIVE CaptureAll(_, _, _, _)
CaptureAll(descs, fr, open, acc) ==
    IF descs = <<>> THEN [open |-> open, upvalues |-> acc, ok |-> TRUE]
    ELSE LET d == Head(descs)
             c == capture_upvalue(open, fr.base + d.index)
         IN  IF d.is_local
             THEN CaptureAll(Tail(descs), fr, c.open, Append(acc, c.cell))
             ELSE IF d.index >= Len(fr.upvalues)
             THEN [open |-> open, upvalues |-> acc, ok |-> FALSE]
             ELSE CaptureAll(Tail(descs), fr, open, Append(acc, At(fr.upvalues, d.index)))

ClosureVal(function, upvalues, id) ==
    Val("Closure", [function |-> function, upvalues |-> upvalues, id |-> id])

Closure ==
    /\ Is("Closure")
    /\ LET fv == At(Frame.constants, cur_opcode.a)
           r  == CaptureAll(fv.v.upvalue_descriptors, Frame, open_upvalues, <<>>)
       IN  IF fv.t # "Function" THEN Panic("constant") /\ UNCHANGED stack
           ELSE IF ~r.ok
           THEN /\ status' = "panic"
                /\ error' = "upvalue_index"
                /\ open_upvalues' = r.open
                /\ caught' = <<>>
                /\ UNCHANGED <<stack, globals, frames, handlers, instances, allocs, host>>
           ELSE /\ stack' = Append(stack, ClosureVal(fv.v, r.upvalues, allocs + 1))
                /\ open_upvalues' = r.open
                /\ allocs' = allocs + 1
                /\ frames' = Advance(frames)
                /\ caught' = <<>>
                /\ UNCHANGED <<globals, handlers, instances, status, error, host>>

Cell(index) == open_upvalues[At(Frame.upvalues, index)]

GetUpvalue ==
    /\ Is("GetUpvalue")
    /\ IF cur_opcode.a >= Len(Frame.upvalues) THEN Panic("upvalue_index") /\ UNCHANGED stack
       ELSE IF Cell(cur_opcode.a).state = "Closed"
       THEN StackStep(Append(stack, Cell(cur_opcode.a).val))
       ELSE IF Cell(cur_opcode.a).idx >= Len(stack)
       THEN Panic("stack_index") /\ UNCHANGED stack
       ELSE StackStep(Append(stack, At(stack, Cell(cur_opcode.a).idx)))

SetUpvalue ==
    /\ Is("SetUpvalue")
    /\ IF stack = <<>> THEN Panic("stack") /\ UNCHANGED stack
       ELSE IF cur_opcode.a >= Len(Frame.upvalues)
       THEN Panic("upvalue_index") /\ stack' = Most(stack)
       ELSE IF Cell(cur_opcode.a).state = "Closed"
       THEN /\ stack' = Most(stack)
            /\ open_upvalues' = [open_upvalues EXCEPT
                                    ![At(Frame.upvalues, cur_opcode.a)] = Closed(Last(stack))]
            /\ frames' = Advance(frames)
            /\ caught' = <<>>
            /\ UNCHANGED <<globals, handlers, instances, allocs, status, error, host>>
       ELSE IF Cell(cur_opcode.a).idx >= Len(stack) - 1
       THEN Panic("stack_index") /\ stack' = Most(stack)
       ELSE StackStep(SetAt(Most(stack), Cell(cur_opcode.a).idx, Last(stack)))

\* close_upvalues_from indexes the stack with every Open index it closes
CanClose(open, stk, stack_index) ==
    \A i \in 1..Len(open) :
        open[i].state = "Open" /\ open[i].idx >= stack_index => open[i].idx < Len(stk)

close_upvalues_from(open, stk, stack_index) ==
    [i \in 1..Len(open) |->
        IF open[i].state = "Open" /\ open[i].idx >= stack_index /\ open[i].idx < Len(stk)
        THEN Closed(At(stk, open[i].idx))
        ELSE open[i]]

CloseUpvalues ==
    /\ Is("CloseUpvalues")
    /\ LET threshold == Frame.base + cur_opcode.a
       IN  IF ~CanClose(open_upvalues, stack, threshold)
           THEN Panic("stack_index") /\ UNCHANGED stack
           ELSE /\ open_upvalues' = close_upvalues_from(open_upvalues, stack, threshold)
                /\ frames' = Advance(frames)
                /\ caught' = <<>>
                /\ UNCHANGED <<stack, globals, handlers, instances, allocs, status, error,
                               host>>

(***************************************************************************)
(* Control flow                                                            *)
(***************************************************************************)
JumpTo(frs, addr) == [frs EXCEPT ![frame_idx + 1].ip = addr]

Jump ==
    /\ Is("Jump")
    /\ frames' = JumpTo(frames, cur_opcode.a)
    /\ caught' = <<>>
    /\ UNCHANGED <<stack, globals, open_upvalues, handlers, instances, allocs, status,
                   error, host>>

\* variant: Nil counts as false and every other non-Boolean as true
CondJump_truthiness(taken) ==
    IF stack = <<>> THEN Panic("stack") /\ UNCHANGED stack
    ELSE /\ stack' = Most(stack)
         /\ frames' = IF (IF Last(stack).t = "Boolean" THEN Last(stack).v
                          ELSE Last(stack).t # "Nil") = taken
                      THEN JumpTo(frames, cur_opcode.a)
                      ELSE Advance(frames)
         /\ caught' = <<>>
         /\ UNCHANGED <<globals, open_upvalues, handlers, instances, allocs, status, error,
                        host>>

CondJump(taken) ==
    IF stack = <<>> THEN Panic("stack") /\ UNCHANGED stack
    ELSE /\ stack' = Most(stack)
         /\ frames' = IF Last(stack).t = "Boolean" /\ Last(stack).v = taken
                      THEN JumpTo(frames, cur_opcode.a)
                      ELSE Advance(frames)
         /\ caught' = <<>>
         /\ UNCHANGED <<globals, open_upvalues, handlers, instances, allocs, status, error,
                        host>>

JumpIfTrue ==
    /\ Is("JumpIfTrue")
    /\ CondJump(TRUE)

JumpIfFalse ==
    /\ Is("JumpIfFalse")
    /\ CondJump(FALSE)

Halt ==
    /\ Is("Halt")
    /\ StackStep(stack)

\* variant: the stack is left as it is
EndOfProgram_keeps_stack ==
    /\ Running /\ ~InCode /\ Len(frames) = 1
    /\ status' = "done"
    /\ caught' = <<>>
    /\ UNCHANGED <<stack, globals, frames, open_upvalues, handlers, instances, allocs, error,
                   host>>

\* ip has passed the end of the root frame's code: keep only the top value
EndOfProgram ==
    /\ Running /\ ~InCode /\ Len(frames) = 1
    /\ stack' = IF Len(stack) > Frame.base
                THEN Append(Truncate(Most(stack), Frame.base), Last(stack))
                ELSE stack
    /\ status' = "done"
    /\ caught' = <<>>
    /\ UNCHANGED <<globals, frames, open_upvalues, handlers, instances, allocs, error, host>>

\* ip has passed the end of a called frame's code
AutoReturn ==
    /\ Running /\ ~InCode /\ Len(frames) > 1
    /\ stack' = Truncate(Append(stack, Nil), Frame.base)
    /\ frames' = Most(frames)
    /\ caught' = <<>>
    /\ UNCHANGED <<globals, open_upvalues, handlers, instances, allocs, status, error, host>>

\* variant: the stack is not truncated to the base of the frame
Return_keeps_locals ==
    /\ Is("Return_")
    /\ LET return_value == IF stack = <<>> THEN Nil ELSE Last(stack)
           rest         == IF stack = <<>> THEN stack ELSE Most(stack)
           base         == Frame.base
       IN  IF ~CanClose(open_upvalues, rest, base) THEN Panic("stack_index") /\ stack' = rest
           ELSE /\ open_upvalues' = close_upvalues_from(open_upvalues, rest, base)
                /\ frames' = Most(frames)
                /\ stack' = Append(rest, return_value)
                /\ status' = IF Len(frames) = 1 THEN "done" ELSE status
                /\ caught' = <<>>
                /\ UNCHANGED <<globals, handlers, instances, allocs, error, host>>

Return_ ==
    /\ Is("Return_")
    /\ LET return_value == IF stack = <<>> THEN Nil ELSE Last(stack)
           rest         == IF stack = <<>> THEN stack ELSE Most(stack)
           base         == Frame.base
       IN  IF ~CanClose(open_upvalues, rest, base) THEN Panic("stack_index") /\ stack' = rest
           ELSE /\ open_upvalues' = close_upvalues_from(open_upvalues, rest, base)
                /\ frames' = Most(frames)
                /\ stack' = Append(Truncate(rest, base), return_value)
                /\ status' = IF Len(frames) = 1 THEN "done" ELSE status
                /\ caught' = <<>>
                /\ UNCHANGED <<globals, handlers, instances, allocs, error, host>>

(***************************************************************************)
(* Calls                                                                   *)
(***************************************************************************)
InstanceVal(id) == Val("Instance", id)

\* variant: the bound methods of one receiver and method are one object
BoundMethodVal_shared(receiver, method, id) ==
    Val("BoundMethod", [receiver |-> receiver, method |-> method, id |-> 0])

BoundMethodVal(receiver, method, id) ==
    Val("BoundMethod", [receiver |-> receiver, method |-> method, id |-> id])

\* Vec::remove(i)
RemoveAt(v, i) == SubSeq(v, 1, i) \o SubSeq(v, i + 2, Len(v))

\* call_function / call_closure after the arity check: the stack and the new
\* frame.  A method keeps the callee slot (the receiver) as slot 0.
\* variant: the callee stays on the stack under the arguments
CalleeStack_keeps_callee(stk, arg_count, is_method) == stk

CalleeStack(stk, arg_count, is_method) ==
    IF is_method THEN stk ELSE RemoveAt(stk, Len(stk) - arg_count - 1)

CalleeFrame(stk, func, arg_count, upvalues) ==
    CallFrame(func.opcodes, func.constants, Len(stk) - arg_count - 1, upvalues)

\* the Ok outcome of call_function (upvalues empty) and of call_closure
EnterCall(stk, func, arg_count, is_method, upvalues, new_instances) ==
    /\ stack' = CalleeStack(stk, arg_count, is_method)
    /\ frames' = Append(Advance(frames), CalleeFrame(stk, func, arg_count, upvalues))
    /\ instances' = new_instances
    /\ caught' = <<>>
    /\ UNCHANGED <<globals, open_upvalues, handlers, allocs, status, error, host>>

\* Err(..) of call_function / call_closure meets unwrap() in execute
ArityPanic(stk, new_instances) ==
    /\ status' = "panic"
    /\ error' = "arity"
    /\ stack' = stk
    /\ instances' = new_instances
    /\ caught' = <<>>
    /\ UNCHANGED <<globals, frames, open_upvalues, handlers, allocs, host>>

call_function(stk, func, arg_count, is_method, new_instances) ==
    IF arg_count # func.arity THEN ArityPanic(stk, new_instances)
    ELSE EnterCall(stk, func, arg_count, is_method, <<>>, new_instances)

call_closure(stk, closure, arg_count) ==
    IF arg_count # closure.function.arity THEN ArityPanic(stk, instances)
    ELSE EnterCall(stk, closure.function, arg_count, FALSE, closure.upvalues, instances)

\* the frames the memory of the machine has room for
MaxFrames == 6

Call ==
    /\ Is("Call")
    /\ Len(frames) < MaxFrames
    /\ LET arg_count  == cur_opcode.a
           callee_idx == Len(stack) - arg_count - 1
           callee     == At(stack, callee_idx)
       IN  IF callee_idx < 0 THEN Panic("stack") /\ UNCHANGED stack
           ELSE CASE callee.t = "Class" ->
                      LET id  == Len(instances) + 1
                          new == Append(instances, [class |-> callee.v, fields |-> EmptyMap])
                          stk == SetAt(stack, callee_idx, InstanceVal(id))
                      IN  IF CtorName \in DOMAIN callee.v.methods
                          THEN call_function(stk, callee.v.methods[CtorName], arg_count,
                                             TRUE, new)
                          ELSE /\ stack' = SubSeq(stk, 1, callee_idx + 1)
                               /\ instances' = new
                               /\ frames' = Advance(frames)
                               /\ caught' = <<>>
                               /\ UNCHANGED <<globals, open_upvalues, handlers, allocs,
                                              status, error, host>>
                  [] callee.t = "BoundMethod" ->
                      call_function(SetAt(stack, callee_idx, InstanceVal(callee.v.receiver)),
                                    callee.v.method, arg_count, TRUE, instances)
                  [] callee.t = "Function" ->
                      call_function(stack, callee.v, arg_count, FALSE, instances)
                  [] callee.t = "Closure" -> call_closure(stack, callee.v, arg_count)
                  [] OTHER -> Panic("not_callable") /\ UNCHANGED stack

(***************************************************************************)
(* Classes and properties                                                  *)
(***************************************************************************)
ClassVal(name, methods, parent) ==
    Val("Class", [name |-> name, methods |-> methods, fields |-> <<>>, parent |-> parent])

\* variant: the parent chain is searched before the class's own methods
RECURSIVE find_method_parent_first(_, _)
find_method_parent_first(class, name) ==
    LET inherited == IF class.parent # <<>>
                     THEN find_method_parent_first(class.parent[1], name)
                     ELSE <<>>
    IN  IF inherited # <<>> THEN inherited
        ELSE IF name \in DOMAIN class.methods THEN <<class.methods[name]>>
        ELSE <<>>

RECURSIVE find_method(_, _)
find_method(class, name) ==
    IF name \in DOMAIN class.methods THEN <<class.methods[name]>>
    ELSE IF class.parent # <<>> THEN find_method(class.parent[1], name)
    ELSE <<>>

\* the Constant(name_idx) that follows Class, GetProperty, SetProperty and
\* GetSuper: <<name>>, or <<>> where the code panics
TrailingName ==
    IF Frame.ip + 1 >= Len(Frame.opcodes) THEN <<>>
    ELSE LET o == At(Frame.opcodes, Frame.ip + 1)
         IN  IF o.op # "Constant" THEN <<>>
             ELSE IF At(Frame.constants, o.a).t # "String" THEN <<>>
             ELSE <<At(Frame.constants, o.a).v>>

\* ip += 1 for the operand, then the ip += 1 of the loop
Advance2(frs) == [frs EXCEPT ![frame_idx + 1].ip = @ + 2]

PanicAtOperand(msg, new_stack) ==
    /\ status' = "panic"
    /\ error' = msg
    /\ stack' = new_stack
    /\ frames' = Advance(frames)
    /\ caught' = <<>>
    /\ UNCHANGED <<globals, open_upvalues, handlers, instances, allocs, host>>

Class ==
    /\ Is("Class")
    /\ IF TrailingName = <<>> THEN PanicAtOperand("operand", stack)
       ELSE /\ stack' = Append(stack, ClassVal(TrailingName[1], EmptyMap, <<>>))
            /\ frames' = Advance2(frames)
            /\ caught' = <<>>
            /\ UNCHANGED <<globals, open_upvalues, handlers, instances, allocs, status,
                           error, host>>

Inherit ==
    /\ Is("Inherit")
    /\ IF stack = <<>> THEN Panic("stack") /\ UNCHANGED stack
       ELSE IF Last(stack).t # "Class" THEN Panic("type") /\ stack' = Most(stack)
       ELSE IF Len(stack) < 2 THEN Panic("stack") /\ stack' = Most(stack)
       ELSE IF Last(Most(stack)).t # "Class" THEN Panic("type") /\ stack' = Most(stack)
       ELSE StackStep(Append(Most(Most(stack)),
                Val("Class", [Last(Most(stack)).v EXCEPT !.parent = <<Last(stack).v>>])))

DefineMethod ==
    /\ Is("DefineMethod")
    /\ LET name   == At(Frame.constants, cur_opcode.a)
           method == Last(stack)
           class  == Last(Most(stack))
       IN  IF name.t # "String" THEN Panic("constant") /\ UNCHANGED stack
           ELSE IF stack = <<>> THEN Panic("stack") /\ UNCHANGED stack
           ELSE IF Len(stack) < 2 THEN Panic("stack") /\ stack' = Most(stack)
           ELSE IF class.t # "Class" \/ method.t \notin {"Function", "Closure"}
           THEN Panic("type") /\ stack' = Most(stack)
           ELSE StackStep(Append(Most(Most(stack)),
                    Val("Class", [class.v EXCEPT !.methods =
                        MapInsert(@, name.v,
                                  IF method.t = "Function" THEN method.v
                                  ELSE method.v.function)])))

GetProperty ==
    /\ Is("GetProperty")
    /\ IF TrailingName = <<>> THEN PanicAtOperand("operand", stack)
       ELSE IF stack = <<>> THEN PanicAtOperand("stack", stack)
       ELSE IF Last(stack).t # "Instance" THEN PanicAtOperand("type", Most(stack))
       ELSE LET inst   == instances[Last(stack).v]
                name   == TrailingName[1]
                method == find_method(inst.class, name)
            IN  IF name \in DOMAIN inst.fields
                THEN /\ stack' = Append(Most(stack), inst.fields[name])
                     /\ frames' = Advance2(frames)
                     /\ caught' = <<>>
                     /\ UNCHANGED <<globals, open_upvalues, handlers, instances, allocs,
                                    status, error, host>>
                ELSE IF method # <<>>
                THEN /\ stack' = Append(Most(stack),
                                    BoundMethodVal(Last(stack).v, method[1], allocs + 1))
                     /\ allocs' = allocs + 1
                     /\ frames' = Advance2(frames)
                     /\ caught' = <<>>
                     /\ UNCHANGED <<globals, open_upvalues, handlers, instances, status,
                                    error, host>>
                ELSE PanicAtOperand("property", Most(stack))

SetProperty ==
    /\ Is("SetProperty")
    /\ IF TrailingName = <<>> THEN PanicAtOperand("operand", stack)
       ELSE IF Len(stack) < 2 THEN PanicAtOperand("stack", <<>>)
       ELSE IF Last(stack).t # "Instance" THEN PanicAtOperand("type", Most(Most(stack)))
       ELSE /\ instances' = [instances EXCEPT ![Last(stack).v].fields =
                                MapInsert(@, TrailingName[1], Last(Most(stack)))]
            /\ stack' = Most(stack)
            /\ frames' = Advance2(frames)
            /\ caught' = <<>>
            /\ UNCHANGED <<globals, open_upvalues, handlers, allocs, status, error, host>>

GetSuper ==
    /\ Is("GetSuper")
    /\ IF TrailingName = <<>> THEN PanicAtOperand("operand", stack)
       ELSE IF stack = <<>> THEN PanicAtOperand("stack", stack)
       ELSE IF Last(stack).t # "Instance" THEN PanicAtOperand("type", Most(stack))
       ELSE LET inst   == instances[Last(stack).v]
                method == find_method(inst.class.parent[1], TrailingName[1])
            IN  IF inst.class.parent = <<>> THEN PanicAtOperand("super", Most(stack))
                ELSE IF method = <<>> THEN PanicAtOperand("property", Most(stack))
                ELSE /\ stack' = Append(Most(stack),
                                    BoundMethodVal(Last(stack).v, method[1], allocs + 1))
                     /\ allocs' = allocs + 1
                     /\ frames' = Advance2(frames)
                     /\ caught' = <<>>
                     /\ UNCHANGED <<globals, open_upvalues, handlers, instances, status,
                                    error, host>>

(***************************************************************************)
(* Indexing                                                                *)
(***************************************************************************)
\* `n as usize`: negative numbers saturate to 0
AsUsize(n) == IF n < 0 THEN 0 ELSE n

GetIndex ==
    /\ Is("GetIndex")
    /\ IF Len(stack) < 2 THEN Panic("stack") /\ stack' = <<>>
       ELSE LET index  == Last(stack)
                object == Last(Most(stack))
                rest   == Most(Most(stack))
                count  == Len(object.v)
                from   == IF index.v.start = <<>> THEN 0 ELSE AsUsize(index.v.start[1])
                to     == IF index.v.end = <<>> THEN count ELSE AsUsize(index.v.end[1])
            IN  CASE object.t = "String" /\ index.t = "Number" ->
                        IF AsUsize(index.v) >= count THEN Panic("index") /\ stack' = rest
                        ELSE StackStep(Append(rest, String(<<At(object.v, AsUsize(index.v))>>)))
                  [] object.t = "String" /\ index.t = "Range" ->
                        IF from > count \/ to > count \/ from > to
                        THEN Panic("index") /\ stack' = rest
                        ELSE StackStep(Append(rest, String(SubSeq(object.v, from + 1, to))))
                  [] OTHER -> Panic("type") /\ stack' = rest

(***************************************************************************)
(* Globals                                                                 *)
(***************************************************************************)
GlobalStep(new_globals) ==
    /\ globals' = new_globals
    /\ stack' = Most(stack)
    /\ frames' = Advance(frames)
    /\ caught' = <<>>
    /\ UNCHANGED <<open_upvalues, handlers, instances, allocs, status, error, host>>

\* variant: HashMap::insert without the contains_key check
DefineGlobal_overwrites ==
    /\ Is("DefineGlobal")
    /\ LET name == At(Frame.constants, cur_opcode.a)
       IN  IF name.t # "String" THEN Panic("constant") /\ UNCHANGED stack
           ELSE IF stack = <<>> THEN Panic("stack") /\ UNCHANGED stack
           ELSE GlobalStep(MapInsert(globals, name.v, Last(stack)))

DefineGlobal ==
    /\ Is("DefineGlobal")
    /\ LET name == At(Frame.constants, cur_opcode.a)
       IN  IF name.t # "String" THEN Panic("constant") /\ UNCHANGED stack
           ELSE IF stack = <<>> THEN Panic("stack") /\ UNCHANGED stack
           ELSE IF name.v \in DOMAIN globals
           THEN Panic("global_defined") /\ stack' = Most(stack)
           ELSE GlobalStep(MapInsert(globals, name.v, Last(stack)))

SetGlobal ==
    /\ Is("SetGlobal")
    /\ LET name == At(Frame.constants, cur_opcode.a)
       IN  IF name.t # "String" THEN Panic("constant") /\ UNCHANGED stack
           ELSE IF stack = <<>> THEN Panic("stack") /\ UNCHANGED stack
           ELSE IF name.v \notin DOMAIN globals
           THEN Panic("global_missing") /\ stack' = Most(stack)
           ELSE GlobalStep([globals EXCEPT ![name.v] = Last(stack)])

GetGlobal ==
    /\ Is("GetGlobal")
    /\ LET name == At(Frame.constants, cur_opcode.a)
       IN  IF name.t # "String" THEN Panic("constant") /\ UNCHANGED stack
           ELSE IF name.v \notin DOMAIN globals
           THEN Panic("global_missing") /\ UNCHANGED stack
           ELSE StackStep(Append(stack, globals[name.v]))

(***************************************************************************)
(* Exceptions.  The handler stack and the three instructions below follow  *)
(* sections 4.1 and 4.4 of the specification.                              *)
(***************************************************************************)
Handler(target, frame_depth, stack_depth) ==
    [target |-> target, frame_depth |-> frame_depth, stack_depth |-> stack_depth]

PushExceptionHandler ==
    /\ Is("PushExceptionHandler")
    /\ handlers' = Append(handlers, Handler(cur_opcode.a, Len(frames), Len(stack)))
    /\ frames' = Advance(frames)
    /\ caught' = <<>>
    /\ UNCHANGED <<stack, globals, open_upvalues, instances, allocs, status, error, host>>

PopExceptionHandler ==
    /\ Is("PopExceptionHandler")
    /\ handlers' = IF handlers = <<>> THEN handlers ELSE Most(handlers)
    /\ frames' = Advance(frames)
    /\ caught' = <<>>
    /\ UNCHANGED <<stack, globals, open_upvalues, instances, allocs, status, error, host>>

\* variant: the thrown value is dropped and the run goes on
ThrowUnhandled_continues ==
    /\ Is("Throw")
    /\ stack # <<>>
    /\ handlers = <<>>
    /\ StackStep(Most(stack))

\* Throw with no handler: the exception is unhandled and the run aborts
ThrowUnhandled ==
    /\ Is("Throw")
    /\ stack # <<>>
    /\ handlers = <<>>
    /\ Panic("unhandled")
    /\ stack' = Most(stack)

\* Throw with a handler: steps 1 to 6 of section 4.4.  Frames above the
\* recorded depth are popped; their upvalues are closed from the base of the
\* lowest popped frame.
Throw ==
    /\ Is("Throw")
    /\ stack # <<>>
    /\ handlers # <<>>
    /\ LET value  == Last(stack)
           rest   == Most(stack)
           h      == Last(handlers)
           kept   == Min(Len(frames), h.frame_depth)
           base   == frames[kept + 1].base
           open   == IF kept < Len(frames)
                     THEN close_upvalues_from(open_upvalues, rest, base)
                     ELSE open_upvalues
           cut    == Truncate(rest, h.stack_depth)
       IN  /\ handlers' = Most(handlers)
           /\ open_upvalues' = open
           /\ stack' = Append(cut, value)
           /\ frames' = [SubSeq(frames, 1, kept) EXCEPT ![kept].ip = h.target]
           /\ caught' = <<[handler |-> h, depth |-> Len(cut)]>>
           /\ UNCHANGED <<globals, instances, allocs, status, error, host>>

\* Throw when fewer frames are left than the handler recorded: "unwind until
\* frames.len() == frame_depth" cannot be met; besides resuming in the
\* current frame (Throw above) the run may abort
ThrowBelowHandlerDepth ==
    /\ Is("Throw")
    /\ stack # <<>>
    /\ handlers # <<>>
    /\ Len(frames) < Last(handlers).frame_depth
    /\ Panic("unwind")
    /\ stack' = Most(stack)

(***************************************************************************)
(* Programs.  Identifiers are single letters.                              *)
(***************************************************************************)
a == <<"a">>
b == <<"b">>
c == <<"c">>
d == <<"d">>
e == <<"e">>
f == <<"f">>
g == <<"g">>
h == <<"h">>
m == <<"m">>
n == <<"n">>
p == <<"p">>
q == <<"q">>
r == <<"r">>
s == <<"s">>
t == <<"t">>
v == <<"v">>
w == <<"w">>
x == <<"x">>
y == <<"y">>
z == <<"z">>

Call0(name) == ExprS(CallE(Id(name), <<>>))

\* two closures over the local c of one activation of m: p writes, q reads
SrcClosures ==
    << VarDecl(p, <<>>), VarDecl(q, <<>>), VarDecl(a, <<>>), VarDecl(b, <<>>),
       FuncDecl(m, <<>>,
           << VarDecl(c, <<Num(0)>>),
              Assign(p, Lam(<<>>, <<Assign(c, Bin("Add", Id(c), Num(1)))>>)),
              Assign(q, Lam(<<>>, <<Return(<<Id(c)>>)>>)),
              Call0(p),
              Assign(a, CallE(Id(q), <<>>)) >>),
       Call0(m),
       Call0(p),
       Assign(b, CallE(Id(q), <<>>)) >>

\* var x = 1; block { var x = 2; a = x }; b = x   inside a function
SrcShadow(loop) ==
    << VarDecl(a, <<>>), VarDecl(b, <<>>),
       FuncDecl(f, <<>>,
           << VarDecl(x, <<Num(1)>>),
              VarDecl(w, <<Bool(TRUE)>>),
              IF loop
              THEN WhileS(Id(w), << VarDecl(x, <<Num(2)>>), Assign(a, Id(x)),
                                    Assign(w, Bool(FALSE)) >>)
              ELSE IfS(Id(w), << VarDecl(x, <<Num(2)>>), Assign(a, Id(x)) >>, <<>>),
              Assign(b, Id(x)) >>),
       Call0(f) >>

SrcShadowTop ==
    << VarDecl(x, <<Num(1)>>),
       IfS(Bool(TRUE), << VarDecl(x, <<Num(2)>>) >>, <<>>) >>

\* a throw two calls below a try body
SrcThrowDeep ==
    << VarDecl(r, <<>>),
       FuncDecl(g, <<>>, << ThrowS(Num(7)) >>),
       FuncDecl(f, <<>>, << Call0(g) >>),
       TryS(<< Call0(f) >>, <<e>>, << Assign(r, Id(e)) >>) >>

\* temporaries left by expression statements in the try body and its callee
SrcThrowTemps ==
    << VarDecl(r, <<>>),
       FuncDecl(h, <<>>, << Return(<<Num(1)>>) >>),
       FuncDecl(f, <<>>, << Call0(h), Call0(h), ThrowS(Num(7)) >>),
       TryS(<< Call0(h), Call0(f) >>, <<>>, << Assign(r, Num(1)) >>) >>

\* a named catch variable at top level, a temporary already on the stack
SrcCatchOverTemp ==
    << VarDecl(r, <<>>),
       FuncDecl(h, <<>>, << Return(<<Num(1)>>) >>),
       Call0(h),
       TryS(<< Call0(h), ThrowS(Num(7)) >>, <<e>>, << Assign(r, Id(e)) >>) >>

\* try/catch inside a function that already has a local
SrcCatchLocal(named) ==
    << VarDecl(r, <<>>),
       FuncDecl(f, <<>>,
           << VarDecl(x, <<Num(1)>>),
              TryS(<< ThrowS(Num(7)) >>, IF named THEN <<e>> ELSE <<>>,
                   << Assign(r, Num(2)) >>),
              Return(<<Id(x)>>) >>),
       Call0(f) >>

\* f returns from inside its try; g then throws inside the caller's try
SrcReturnInTry ==
    << VarDecl(r, <<>>),
       FuncDecl(f, <<>>, << TryS(<< Return(<<Num(1)>>) >>, <<e>>, <<>>) >>),
       FuncDecl(g, <<>>, << ThrowS(Num(7)) >>),
       TryS(<< Call0(f), Call0(g) >>, <<e>>, << Assign(r, Id(e)) >>) >>

SrcReturnInTryRoot ==
    << FuncDecl(f, <<>>, << TryS(<< Return(<<Num(1)>>) >>, <<e>>, <<>>) >>),
       Call0(f),
       ThrowS(Num(7)) >>

\* a throw one call deep with no try anywhere; r = 1 is the statement after it
SrcUnhandled ==
    << VarDecl(r, <<>>),
       FuncDecl(g, <<>>, << ThrowS(Num(7)) >>),
       Call0(g),
       Assign(r, Num(1)) >>

\* s extends c, both define m; c.m reads the receiver's field v
SrcDispatch ==
    << ClassDecl(c, <<>>, << Method(m, <<>>, << Return(<<Fld(This, v)>>) >>) >>),
       ClassDecl(s, <<c>>,
           << Method(m, <<>>,
                  << Return(<<Bin("Add", CallE(Fld(Id(SuperName), m), <<>>), Num(10))>>) >>) >>),
       VarDecl(x, <<CallE(Id(s), <<>>)>>),
       VarDecl(y, <<CallE(Id(s), <<>>)>>),
       AssignField(Id(x), v, Num(5)),
       AssignField(Id(y), v, Num(6)),
       VarDecl(r, <<CallE(Fld(Id(x), m), <<>>)>>) >>

SrcConstructor ==
    << ClassDecl(c, <<>>,
           << Constructor(<<n>>, << AssignField(This, v, Id(n)) >>),
              Method(g, <<>>, << Return(<<Fld(This, v)>>) >>) >>),
       VarDecl(y, <<CallE(Id(c), <<Num(3)>>)>>),
       VarDecl(r, <<CallE(Fld(Id(y), g), <<>>)>>) >>

\* s extends c and defines no constructor of its own
SrcInheritCtor ==
    << ClassDecl(c, <<>>, << Constructor(<<n>>, << AssignField(This, v, Id(n)) >>) >>),
       ClassDecl(s, <<c>>, <<>>),
       VarDecl(y, <<CallE(Id(s), <<Num(3)>>)>>),
       VarDecl(r, <<Fld(Id(y), v)>>) >>

\* y = c() for a class c with the given members
SrcConstruct(members) ==
    << ClassDecl(c, <<>>, members), VarDecl(y, <<CallE(Id(c), <<>>)>>) >>

\* r = left op e(), where e() sets t; n is Nil
SrcLogical(operator, left) ==
    << VarDecl(t, <<Num(0)>>), VarDecl(n, <<>>),
       FuncDecl(e, <<>>, << Assign(t, Num(1)), Return(<<Num(9)>>) >>),
       VarDecl(r, <<Bin(operator, left, CallE(Id(e), <<>>))>>) >>

SrcRedefine == << VarDecl(x, <<Num(1)>>), VarDecl(x, <<Num(2)>>) >>

SrcSetMissing == << VarDecl(x, <<Num(1)>>), Assign(y, Num(2)) >>

\* an erroneous expression statement inside try { } catch e { r = e }
SrcGuarded(decls, bad) ==
    << VarDecl(r, <<>>) >> \o decls \o
    << TryS(<< ExprS(bad) >>, <<e>>, << Assign(r, Id(e)) >>) >>

ClassWithCtor ==
    ClassDecl(c, <<>>, << Constructor(<<n>>, <<>>), Method(m, <<n>>, <<>>) >>)

SrcArith ==
    << VarDecl(a, <<Un("Negate", Bin("Subtract", Bin("Multiply", Num(2), Num(3)), Num(1)))>>),
       VarDecl(b, <<Un("Not", Bin("Less", Num(1), Num(2)))>>),
       VarDecl(c, <<Bin("Equal", Num(1), Num(1))>>),
       VarDecl(d, <<Bin("Greater", Str(<<"b">>), Str(<<"a", "b">>))>>),
       VarDecl(s, <<Bin("Add", Str(<<"a">>), Num(12))>>),
       VarDecl(t, <<Idx(Str(<<"a", "b", "c">>), RangeE(<<Num(1)>>, <<>>))>>),
       VarDecl(v, <<Idx(Str(<<"a", "b", "c">>), Num(2))>>) >>

\* s = 0; c = 0; while (c < count) { s = s + c; c = c + 1 }
SrcLoop(count) ==
    << VarDecl(s, <<Num(0)>>), VarDecl(c, <<Num(0)>>),
       WhileS(Bin("Less", Id(c), Num(count)),
              << Assign(s, Bin("Add", Id(s), Id(c))),
                 Assign(c, Bin("Add", Id(c), Num(1))) >>) >>

\* the largest count of the counting loops
MaxCount == 5

LoopNames == <<"loop0", "loop1", "loop2", "loop3", "loop4", "loop5", "loop6", "loop7">>

\* the counting loops that are run: those with a count up to MaxCount
LoopPrograms == {LoopNames[i + 1] : i \in 0..MaxCount}

LoopCount(name) == CHOOSE i \in 0..MaxCount : LoopNames[i + 1] = name

\* func f() { var x = 7; var y = 9;
\*            func g() { first; func h() { return x }; last; return h() }
\*            return g() }
\* r = f(): h, two levels below f, reads f's local x through g
SrcDeepCapture(first, last) ==
    << VarDecl(r, <<>>),
       FuncDecl(f, <<>>,
           << VarDecl(x, <<Num(7)>>), VarDecl(y, <<Num(9)>>),
              FuncDecl(g, <<>>,
                  first \o << FuncDecl(h, <<>>, << Return(<<Id(x)>>) >>) >> \o last
                        \o << Return(<<CallE(Id(h), <<>>)>>) >>),
              Return(<<CallE(Id(g), <<>>)>>) >>),
       Assign(r, CallE(Id(f), <<>>)) >>

\* func f() { if (taken) { var w = 1; var x = 2 }  return (lambda() { return x })() }
\* r = f(): a closure over a local declared in a branch
SrcCaptureBranch(taken) ==
    << VarDecl(r, <<>>),
       FuncDecl(f, <<>>,
           << IfS(Bool(taken), << VarDecl(w, <<Num(1)>>), VarDecl(x, <<Num(2)>>) >>, <<>>),
              Return(<<CallE(Lam(<<>>, << Return(<<Id(x)>>) >>), <<>>)>>) >>),
       Assign(r, CallE(Id(f), <<>>)) >>

\* a class declared where the local named outer is in scope, with a method
\* that reads it; the method is called once the class is declared
ClassReading(outer) ==
    << ClassDecl(c, <<>>, << Method(m, <<>>, << Return(<<Id(outer)>>) >>) >>),
       Assign(r, CallE(Fld(CallE(Id(c), <<>>), m), <<>>)) >>

\* func f() { var x = 1; class c { m() { return x } }  r = c().m() }  f()
SrcMethodInFunction ==
    << VarDecl(r, <<>>),
       FuncDecl(f, <<>>, << VarDecl(x, <<Num(1)>>) >> \o ClassReading(x)),
       Call0(f) >>

\* try { throw 5 } catch e { class c { m() { return e } }  r = c().m() }
SrcMethodInCatch ==
    << VarDecl(r, <<>>), TryS(<< ThrowS(Num(5)) >>, <<e>>, ClassReading(e)) >>

\* try { r = 1 } catch e { r = 2 }  throw 7: a throw after a try that ended
\* normally
SrcTryDone ==
    << VarDecl(r, <<>>),
       TryS(<< Assign(r, Num(1)) >>, <<e>>, << Assign(r, Num(2)) >>),
       ThrowS(Num(7)) >>

\* try { try { inner } catch e { r = e; in_catch }  after } catch e { t = e }
SrcTryNested(inner, in_catch, after) ==
    << VarDecl(r, <<>>), VarDecl(t, <<>>),
       TryS(<< TryS(inner, <<e>>, << Assign(r, Id(e)) >> \o in_catch) >> \o after,
            <<e>>, << Assign(t, Id(e)) >>) >>

\* var n = 0; while (n < 2) { statement; n = n + 1 }
SrcLoopOver(declarations, statement) ==
    declarations \o
    << VarDecl(n, <<Num(0)>>),
       WhileS(Bin("Less", Id(n), Num(2)),
              << statement, Assign(n, Bin("Add", Id(n), Num(1))) >>) >>

\* class a { m() { return 1 } }  class b extends a { m() { return super.m() + 10 } }
\* class c extends b { }  r = c().m()
SrcSuperChain ==
    << ClassDecl(a, <<>>, << Method(m, <<>>, << Return(<<Num(1)>>) >>) >>),
       ClassDecl(b, <<a>>,
           << Method(m, <<>>,
                  << Return(<<Bin("Add", CallE(Fld(Id(SuperName), m), <<>>), Num(10))>>) >>) >>),
       ClassDecl(c, <<b>>, <<>>),
       VarDecl(y, <<CallE(Id(c), <<>>)>>),
       VarDecl(r, <<CallE(Fld(Id(y), m), <<>>)>>) >>

\* func g(n) { if n <= 0 { return 0 }  return g(n - 1) + 1 }
SrcCountDown ==
    FuncDecl(g, <<n>>,
        << IfS(Bin("LessEqual", Id(n), Num(0)), << Return(<<Num(0)>>) >>, <<>>),
           Return(<<Bin("Add", CallE(Id(g), <<Bin("Subtract", Id(n), Num(1))>>), Num(1))>>) >>)

\* g declared at top level, or inside f; r = g(2)
SrcRecursive(nested) ==
    << VarDecl(r, <<>>) >> \o
    (IF nested
     THEN << FuncDecl(f, <<>>, << SrcCountDown, Return(<<CallE(Id(g), <<Num(2)>>)>>) >>),
             Assign(r, CallE(Id(f), <<>>)) >>
     ELSE << SrcCountDown, Assign(r, CallE(Id(g), <<Num(2)>>)) >>)

\* a module block inside a module block, between two bare declarations
SrcModuleBlock ==
    << VarDecl(z, <<Num(0)>>),
       ModuleBlock(m, << ModuleBlock(n, << VarDecl(a, <<Num(1)>>) >>),
                         VarDecl(x, <<Num(2)>>),
                         FuncDecl(f, <<>>, << Return(<<Id(x)>>) >>),
                         VarDecl(r, <<CallE(Id(f), <<>>)>>) >>),
       VarDecl(y, <<Num(3)>>) >>

\* r = left operator right, after the declarations
SrcCompare(decls, operator, left, right) ==
    decls \o << VarDecl(r, <<Bin(operator, left, right)>>) >>

\* y.g is evaluated twice, into p and q, and both results are called
SrcBoundTwice ==
    << ClassDecl(c, <<>>,
           << Constructor(<<n>>, << AssignField(This, v, Id(n)) >>),
              Method(g, <<>>, << Return(<<Fld(This, v)>>) >>) >>),
       VarDecl(y, <<CallE(Id(c), <<Num(5)>>)>>),
       VarDecl(p, <<Fld(Id(y), g)>>),
       VarDecl(q, <<Fld(Id(y), g)>>),
       VarDecl(e, <<Bin("Equal", Id(p), Id(p))>>),
       VarDecl(a, <<CallE(Id(p), <<>>)>>),
       VarDecl(b, <<CallE(Id(q), <<>>)>>) >>

\* calls whose arguments are calls, under a pending callee and argument
SrcNestedCalls ==
    << ClassDecl(c, <<>>,
           << Constructor(<<n>>, << AssignField(This, v, Id(n)) >>),
              Method(s, <<a, b>>,
                     << Return(<<Bin("Subtract", Bin("Add", Fld(This, v), Id(a)), Id(b))>>) >>) >>),
       FuncDecl(f, <<a>>, << Return(<<Bin("Add", Id(a), Num(1))>>) >>),
       FuncDecl(g, <<a, b>>, << Return(<<Bin("Subtract", Id(a), Id(b))>>) >>),
       VarDecl(y, <<CallE(Id(c), <<Num(5)>>)>>),
       VarDecl(d, <<CallE(Id(g), <<Num(10), Num(3)>>)>>),
       VarDecl(r, <<CallE(Id(g), <<Num(20), CallE(Id(f), <<CallE(Id(f), <<Num(1)>>)>>)>>)>>),
       VarDecl(t, <<CallE(Id(g), <<CallE(Fld(Id(y), s), <<CallE(Id(f), <<Num(1)>>), Num(4)>>),
                                   Num(100)>>)>>) >>

\* m.x, the exported variable of module m seen from outside
MX == Fld(Id(m), x)

\* a program that imports the listed modules, declares r and then runs body
SrcImport(imports, body) == imports \o << VarDecl(r, <<>>) >> \o body

ImportM == Import(m, <<>>)

ImportN == Import(n, <<>>)

\* where a reference to a module member can stand
SrcResolve(body) == SrcImport(<<ImportM>>, body)

LeftOperands == [false |-> Bool(FALSE), true |-> Bool(TRUE), nil |-> Id(n), num |-> Num(5)]

Source ==
    [closures |-> SrcClosures,
     shadow_if |-> SrcShadow(FALSE),
     shadow_while |-> SrcShadow(TRUE),
     shadow_top |-> SrcShadowTop,
     throw_deep |-> SrcThrowDeep,
     throw_temps |-> SrcThrowTemps,
     catch_over_temp |-> SrcCatchOverTemp,
     catch_local |-> SrcCatchLocal(TRUE),
     catch_local_pop |-> SrcCatchLocal(FALSE),
     return_in_try |-> SrcReturnInTry,
     return_in_try_root |-> SrcReturnInTryRoot,
     unhandled |-> SrcUnhandled,
     dispatch |-> SrcDispatch,
     constructor |-> SrcConstructor,
     inherit_ctor |-> SrcInheritCtor,
     no_ctor |-> SrcConstruct(<<>>),
     ctor_end |-> SrcConstruct(<< Constructor(<<>>, << AssignField(This, v, Num(1)) >>) >>),
     ctor_return |-> SrcConstruct(<< Constructor(<<>>, << Return(<<>>) >>) >>),
     ctor_return_value |-> SrcConstruct(<< Constructor(<<>>, << Return(<<Num(5)>>) >>) >>),
     and_false |-> SrcLogical("And", LeftOperands.false),
     and_true |-> SrcLogical("And", LeftOperands.true),
     and_nil |-> SrcLogical("And", LeftOperands.nil),
     and_num |-> SrcLogical("And", LeftOperands.num),
     or_false |-> SrcLogical("Or", LeftOperands.false),
     or_true |-> SrcLogical("Or", LeftOperands.true),
     or_nil |-> SrcLogical("Or", LeftOperands.nil),
     or_num |-> SrcLogical("Or", LeftOperands.num),
     redefine |-> SrcRedefine,
     set_missing |-> SrcSetMissing,
     arity_closure |-> SrcGuarded(<<FuncDecl(f, <<a>>, <<>>)>>, CallE(Id(f), <<>>)),
     arity_ctor |-> SrcGuarded(<<ClassWithCtor>>, CallE(Id(c), <<>>)),
     arity_method |-> SrcGuarded(<<ClassWithCtor, VarDecl(x, <<CallE(Id(c), <<Num(1)>>)>>)>>,
                                 CallE(Fld(Id(x), m), <<>>)),
     type_arith |-> SrcGuarded(<<>>, Bin("Subtract", Num(1), Str(<<"a">>))),
     index_range |-> SrcGuarded(<<>>, Idx(Str(<<"a", "b", "c">>), Num(5))),
     missing_global |-> SrcGuarded(<<>>, Id(z)),
     set_missing_global |-> << VarDecl(r, <<>>),
                               TryS(<< Assign(z, Num(1)) >>, <<e>>, << Assign(r, Id(e)) >>) >>,
     not_callable |-> SrcGuarded(<<>>, CallE(Num(5), <<>>)),
     missing_property |-> SrcGuarded(<<ClassWithCtor, VarDecl(x, <<CallE(Id(c), <<Num(1)>>)>>)>>,
                                     Fld(Id(x), q)),
     arith |-> SrcArith,
     module_block |-> SrcModuleBlock,
     eq_function |-> SrcCompare(<<FuncDecl(f, <<>>, <<>>)>>, "Equal", Id(f), Id(f)),
     eq_class |-> SrcCompare(<<ClassDecl(c, <<>>, <<>>)>>, "Equal", Id(c), Id(c)),
     eq_instance |-> SrcCompare(<<ClassDecl(c, <<>>, <<>>), VarDecl(y, <<CallE(Id(c), <<>>)>>)>>,
                                "Equal", Id(y), Id(y)),
     less_mixed |-> SrcCompare(<<>>, "Less", Num(1), Str(<<"a">>)),
     greater_nil |-> SrcCompare(<<VarDecl(n, <<>>)>>, "Greater", Id(n), Id(n)),
     greater_number |-> SrcCompare(<<>>, "Greater", Num(2), Num(1)),
     less_string |-> SrcCompare(<<>>, "Less", Str(<<"a">>), Str(<<"a", "b">>)),
     bound_twice |-> SrcBoundTwice,
     nested_calls |-> SrcNestedCalls,
     recursive_top |-> SrcRecursive(FALSE),
     recursive_nested |-> SrcRecursive(TRUE),
     super_chain |-> SrcSuperChain,
     method_in_function |-> SrcMethodInFunction,
     method_in_catch |-> SrcMethodInCatch,
     capture_declared |-> SrcCaptureBranch(TRUE),
     capture_undeclared |-> SrcCaptureBranch(FALSE),
     loop_call |-> SrcLoopOver(<< FuncDecl(f, <<>>, << Return(<<Num(7)>>) >>) >>, Call0(f)),
     loop_field |-> SrcLoopOver(<< ClassDecl(c, <<>>, <<>>), VarDecl(y, <<CallE(Id(c), <<>>)>>) >>,
                                AssignField(Id(y), v, Id(n))),
     line_value |-> << ExprS(Bin("Add", Num(1), Num(2))) >>,
     try_done |-> SrcTryDone,
     nested_after |-> SrcTryNested(<< Assign(r, Num(1)) >>, <<>>, << ThrowS(Num(7)) >>),
     nested_in_catch |-> SrcTryNested(<< ThrowS(Num(5)) >>, << ThrowS(Num(8)) >>, <<>>),
     deep_capture |-> SrcDeepCapture(<<>>, <<>>),
     deep_capture_used |-> SrcDeepCapture(<< VarDecl(w, <<Id(x)>>) >>, <<>>),
     deep_capture_other |-> SrcDeepCapture(<<>>, << VarDecl(w, <<Id(y)>>) >>),
     import_use |-> SrcImport(<<ImportM>>, << Assign(r, MX) >>),
     import_ordered |-> SrcImport(<<Import(m \o PnsExt, <<>>), ImportN>>,
                                  << Assign(r, Fld(Id(n), y)) >>),
     import_chain |-> SrcImport(<<ImportN, ImportM>>, << Assign(r, Fld(Id(n), y)) >>),
     import_nested |-> SrcImport(<<ImportN>>, << Assign(r, Fld(Id(n), y)) >>),
     import_twice |-> SrcImport(<<ImportM, ImportM>>, << Assign(r, MX) >>),
     import_alias |-> SrcImport(<<ImportM, Import(m, <<g>>)>>, << Assign(r, Fld(Id(g), x)) >>),
     import_missing |-> SrcImport(<<Import(z, <<>>)>>, << Assign(r, Num(1)) >>),
     import_private |-> SrcImport(<<ImportM>>, << Assign(r, Fld(Id(m), w)) >>),
     import_broken |-> SrcImport(<<Import(q, <<>>)>>, << Assign(r, Num(1)) >>),
     import_broken_twice |->
        SrcImport(<<Import(q, <<>>), Import(q, <<>>)>>, << Assign(r, Num(1)) >>),
     import_unreadable |-> SrcImport(<<Import(<<"u">>, <<>>)>>, << Assign(r, Num(1)) >>),
     resolve_function |->
        SrcResolve(<< FuncDecl(h, <<>>, << Return(<<MX>>) >>), Assign(r, CallE(Id(h), <<>>)) >>),
     resolve_lambda |->
        SrcResolve(<< Assign(r, CallE(Lam(<<>>, << Return(<<MX>>) >>), <<>>)) >>),
     resolve_argument |->
        SrcResolve(<< FuncDecl(h, <<a>>, << Return(<<Id(a)>>) >>),
                      Assign(r, CallE(Id(h), <<MX>>)) >>),
     resolve_try |-> SrcResolve(<< TryS(<< Assign(r, MX) >>, <<>>, <<>>) >>),
     resolve_catch |->
        SrcResolve(<< TryS(<< ThrowS(Num(7)) >>, <<>>, << Assign(r, MX) >>) >>),
     resolve_throw |->
        SrcResolve(<< TryS(<< ThrowS(MX) >>, <<e>>, << Assign(r, Id(e)) >>) >>),
     resolve_method |->
        SrcResolve(<< ClassDecl(c, <<>>, << Method(h, <<>>, << Return(<<MX>>) >>) >>),
                      Assign(r, CallE(Fld(CallE(Id(c), <<>>), h), <<>>)) >>),
     resolve_constructor |->
        SrcResolve(<< ClassDecl(c, <<>>, << Constructor(<<>>, << Assign(r, MX) >>) >>),
                      ExprS(CallE(Id(c), <<>>)) >>),
     resolve_index |->
        SrcResolve(<< Assign(r, Idx(Str(<<"a", "b", "c">>), MX)) >>),
     loop0 |-> SrcLoop(0), loop1 |-> SrcLoop(1), loop2 |-> SrcLoop(2), loop3 |-> SrcLoop(3),
     loop4 |-> SrcLoop(4), loop5 |-> SrcLoop(5), loop6 |-> SrcLoop(6), loop7 |-> SrcLoop(7)]

\* bytecode handed to VM::execute directly, as the unit tests of vm.rs do
RawFunction(arity, opcodes, descs) ==
    FunctionVal([arity |-> arity, opcodes |-> opcodes, constants |-> <<>>,
                 name |-> f, upvalue_count |-> Len(descs), upvalue_descriptors |-> descs])

\* a function with a constant pool of its own
RawOuter(opcodes, constants) ==
    FunctionVal([arity |-> 0, opcodes |-> opcodes, constants |-> constants,
                 name |-> g, upvalue_count |-> 0, upvalue_descriptors |-> <<>>])

Raw ==
    [raw_locals |->
        [opcodes |-> << Op1("Constant", 0), Op1("DefineLocal", 0), Op1("Constant", 1),
                        Op1("SetLocal", 0), Op1("GetLocal", 0) >>,
         constants |-> << Number(1), Number(2) >>,
         error |-> FALSE],
     raw_upvalue |->
        [opcodes |-> << Op0("True_"), Op1("DefineLocal", 0), Op("Closure", 1, 1),
                        Op1("CloseUpvalues", 0), Op0("False_"), Op1("SetLocal", 0),
                        Op1("Call", 0), Op1("Constant", 0), Op1("GetLocal", 0),
                        Op1("Call", 1) >>,
         constants |-> << RawFunction(1, << Op1("GetLocal", 0), Op0("Return_") >>, <<>>),
                          RawFunction(0, << Op1("GetUpvalue", 0), Op0("Return_") >>,
                                      << UpvalueDescriptor(TRUE, 0) >>) >>,
         error |-> FALSE],
     \* a called function whose code ends, without Return_, after it has
     \* made a closure over its slot 0
     raw_fall_off |->
        [opcodes |-> << Op1("Constant", 0), Op1("Call", 0) >>,
         constants |->
            << RawOuter(<< Op0("True_"), Op("Closure", 0, 1) >>,
                        << RawFunction(0, << Op1("GetUpvalue", 0), Op0("Return_") >>,
                                       << UpvalueDescriptor(TRUE, 0) >>) >>) >>,
         error |-> FALSE]]

Programs ==
    (DOMAIN Source \ {LoopNames[i] : i \in 1..Len(LoopNames)})
    \cup LoopPrograms \cup DOMAIN Raw

\* host programs that call run_source twice
Repeated ==
    << <<"import_use", "import_use">>, <<"resolve_function", "import_nested">>,
       <<"line_value", "line_value">>, <<"import_unreadable", "import_unreadable">> >>

\* what the host program does with its interpreter: the programs it runs,
\* in order
Sessions == {<<name>> : name \in Programs} \cup {Repeated[i] : i \in 1..Len(Repeated)}

\* VM::execute pushes the root frame; a panic of the generator ends the run
LoadCode(code) ==
    IF code.error
    THEN /\ status' = "panic"
         /\ error' = "generator"
         /\ UNCHANGED frames
    ELSE /\ status' = "running"
         /\ frames' = Append(frames, CallFrame(code.opcodes, code.constants, 0, <<>>))
         /\ UNCHANGED error

\* step 3 of run_source has ended: a failed name resolution is a panic
\* (expect), a resolved program is generated and executed
RunResolved(resolution) ==
    IF resolution.ok
    THEN /\ flattened' = Append(flattened, resolution.node)
         /\ LoadCode(generate(resolution.node))
    ELSE /\ status' = "panic"
         /\ error' = "name_resolution"
         /\ UNCHANGED <<frames, flattened>>

RunFlat(flat) ==
    /\ loaded_modules' = flat.loaded_modules
    /\ loader' = flat.loader
    /\ reported' = flat.reported
    /\ symbol_table' = flat.table
    /\ RunResolved(resolve(flat.ast, flat.table))

\* the host runs the first program of the session: bytecode is executed as
\* it is, source goes through run_source
Run(session) ==
    /\ prog' = Head(session)
    /\ pending' = Tail(session)
    /\ IF Head(session) \in DOMAIN Raw
       THEN /\ LoadCode(Raw[Head(session)])
            /\ UNCHANGED <<loaded_modules, symbol_table, flattened, loader, reported>>
       ELSE RunFlat(process_imports(Source[Head(session)], loaded_modules, symbol_table,
                                    loader, reported))

\* Ponos::run_source (process the imports, resolve the names, generate,
\* VM::execute), called for the first time or again once the last call has
\* returned
Execute ==
    /\ \/ /\ status = "idle"
          /\ \E session \in Sessions : Run(session)
       \/ /\ status = "done"
          /\ pending # <<>>
          /\ Run(pending)
    /\ UNCHANGED <<stack, globals, open_upvalues, handlers, instances, allocs, caught,
                   loader_calls, native_json>>

\* one iteration of the loop of VM::execute
Instruction ==
    \/ Constant \/ Pop \/ Dup
    \/ Negate \/ binary_add_op \/ binary_number_op
    \/ True_ \/ False_ \/ binary_logical_op \/ Not
    \/ GetLocal \/ SetLocal \/ DefineLocal
    \/ Closure \/ GetUpvalue \/ SetUpvalue \/ CloseUpvalues
    \/ Jump \/ JumpIfTrue \/ JumpIfFalse \/ Halt
    \/ EndOfProgram \/ AutoReturn \/ Return_
    \/ Call
    \/ Class \/ Inherit \/ DefineMethod \/ GetProperty \/ SetProperty \/ GetSuper
    \/ GetIndex
    \/ DefineGlobal \/ SetGlobal \/ GetGlobal
    \/ PushExceptionHandler \/ PopExceptionHandler
    \/ ThrowUnhandled \/ Throw \/ ThrowBelowHandlerDepth

Next == Execute \/ Instruction

Spec == Init /\ [][Next]_vars

\* where the run stands: its status and the ip of every frame
Position == <<status, [i \in 1..Len(frames) |-> frames[i].ip]>>

\* the loop of execute does not pause: while an instruction can be executed,
\* one is
FairSpec == Spec /\ WF_Position(Instruction)

(***************************************************************************)
(* Native module json (native/json.rs).  An array is its vector of items   *)
(* and a dictionary its map from keys to values; a JSON value is a kind j  *)
(* and a content x.  The text of a JSON value is what serde_json writes    *)
(* (no white space, object members in key order, a float with its          *)
(* fraction) and from_str reads such text back.                            *)
(***************************************************************************)
ArrayVal(items) == Val("Array", items)

DictVal(map) == Val("Dict", map)

Json(kind, content) == [j |-> kind, x |-> content]

JsonOk(json) == [ok |-> TRUE, json |-> json]

JsonErr == [ok |-> FALSE, json |-> <<>>]

\* the key of a dictionary entry as the key of an object member
JsonKey(key) ==
    CASE key.t = "String" -> key.v
      [] key.t = "Number" -> NumToString(key.v)
      [] key.t = "Boolean" ->
            IF key.v THEN <<"t", "r", "u", "e">> ELSE <<"f", "a", "l", "s", "e">>

RECURSIVE value_to_json(_)
RECURSIVE ItemsToJson(_, _)
RECURSIVE EntriesToJson(_, _, _)
\* the loop over the items of an array: the first Err ends it
ItemsToJson(items, done) ==
    IF items = <<>> THEN JsonOk(Json("Array", done))
    ELSE IF value_to_json(Head(items)).ok
    THEN ItemsToJson(Tail(items), Append(done, value_to_json(Head(items)).json))
    ELSE JsonErr

\* the loop over the entries of a dictionary: a member inserted under a key
\* the object already has replaces the older one (the order of the entries
\* matters only then, and string keys never give one member name twice)
EntriesToJson(map, keys, done) ==
    IF keys = {} THEN JsonOk(Json("Object", done))
    ELSE LET key == CHOOSE key \in keys : TRUE
         IN  IF value_to_json(map[key]).ok
             THEN EntriesToJson(map, keys \ {key},
                                (JsonKey(key) :> value_to_json(map[key]).json) @@ done)
             ELSE JsonErr

value_to_json(value) ==
    CASE value.t = "Nil" -> JsonOk(Json("Null", 0))
      [] value.t = "Boolean" -> JsonOk(Json("Bool", value.v))
      [] value.t = "Number" -> JsonOk(Json("Number", value.v))
      [] value.t = "String" -> JsonOk(Json("String", value.v))
      [] value.t = "Array" -> ItemsToJson(value.v, <<>>)
      [] value.t = "Dict" -> EntriesToJson(value.v, DOMAIN value.v, EmptyMap)
      [] OTHER -> JsonErr

\* variant: null is read as false
RECURSIVE json_to_value_null_false(_)
json_to_value_null_false(json) ==
    CASE json.j = "Null" -> Boolean(FALSE)
      [] json.j = "Bool" -> Boolean(json.x)
      [] json.j = "Number" -> Number(json.x)
      [] json.j = "String" -> String(json.x)
      [] json.j = "Array" ->
            ArrayVal([i \in 1..Len(json.x) |-> json_to_value_null_false(json.x[i])])
      [] json.j = "Object" ->
            DictVal([key \in {String(name) : name \in DOMAIN json.x} |->
                        json_to_value_null_false(json.x[key.v])])

RECURSIVE json_to_value(_)
json_to_value(json) ==
    CASE json.j = "Null" -> Nil
      [] json.j = "Bool" -> Boolean(json.x)
      [] json.j = "Number" -> Number(json.x)
      [] json.j = "String" -> String(json.x)
      [] json.j = "Array" -> ArrayVal([i \in 1..Len(json.x) |-> json_to_value(json.x[i])])
      [] json.j = "Object" ->
            DictVal([key \in {String(name) : name \in DOMAIN json.x} |->
                        json_to_value(json.x[key.v])])

\* serde_json::to_string
RECURSIVE Escape(_)
Escape(str) ==
    IF str = <<>> THEN <<>>
    ELSE (IF Head(str) \in {"\"", "\\"} THEN <<"\\", Head(str)>> ELSE <<Head(str)>>)
         \o Escape(Tail(str))

Quote(str) == <<"\"">> \o Escape(str) \o <<"\"">>

\* the keys of an object in the order of its map, the order of the strings
RECURSIVE SortedKeys(_)
SortedKeys(keys) ==
    IF keys = {} THEN <<>>
    ELSE LET least == CHOOSE key \in keys : \A other \in keys : ~StrGreater(key, other)
         IN  <<least>> \o SortedKeys(keys \ {least})

RECURSIVE to_string(_)
RECURSIVE ItemsText(_)
RECURSIVE MembersText(_, _)
ItemsText(items) ==
    IF items = <<>> THEN <<>>
    ELSE to_string(Head(items))
         \o (IF Len(items) > 1 THEN <<",">> \o ItemsText(Tail(items)) ELSE <<>>)

MembersText(members, keys) ==
    IF keys = <<>> THEN <<>>
    ELSE Quote(Head(keys)) \o <<":">> \o to_string(members[Head(keys)])
         \o (IF Len(keys) > 1 THEN <<",">> \o MembersText(members, Tail(keys)) ELSE <<>>)

to_string(json) ==
    CASE json.j = "Null" -> <<"n", "u", "l", "l">>
      [] json.j = "Bool" ->
            IF json.x THEN <<"t", "r", "u", "e">> ELSE <<"f", "a", "l", "s", "e">>
      [] json.j = "Number" -> NumToString(json.x) \o <<".", "0">>
      [] json.j = "String" -> Quote(json.x)
      [] json.j = "Array" -> <<"[">> \o ItemsText(json.x) \o <<"]">>
      [] json.j = "Object" ->
            <<"{">> \o MembersText(json.x, SortedKeys(DOMAIN json.x)) \o <<"}">>

\* serde_json::from_str: what has been read and the text after it
Read(json, rest) == [ok |-> TRUE, json |-> json, rest |-> rest]

Unread == [ok |-> FALSE, json |-> <<>>, rest |-> <<>>]

StartsWith(text, prefix) ==
    Len(text) >= Len(prefix) /\ SubSeq(text, 1, Len(prefix)) = prefix

Skip(text, count) == SubSeq(text, count + 1, Len(text))

DigitChars == <<"0", "1", "2", "3", "4", "5", "6", "7", "8", "9">>

IsDigit(char) == \E i \in 1..10 : DigitChars[i] = char

DigitValue(char) == (CHOOSE i \in 1..10 : DigitChars[i] = char) - 1

\* the characters of a string up to its closing quote
RECURSIVE ReadChars(_, _)
ReadChars(text, done) ==
    IF text = <<>> THEN Unread
    ELSE IF Head(text) = "\"" THEN Read(done, Tail(text))
    ELSE IF Head(text) = "\\"
    THEN IF Len(text) >= 2 /\ text[2] \in {"\"", "\\"}
         THEN ReadChars(Skip(text, 2), Append(done, text[2]))
         ELSE Unread
    ELSE ReadChars(Tail(text), Append(done, Head(text)))

\* the digits of a number: the integer part is accumulated, and of a
\* fraction only zeros are read (the numbers here are whole)
RECURSIVE ReadDigits(_, _, _)
ReadDigits(text, sign, whole) ==
    IF text # <<>> /\ IsDigit(Head(text))
    THEN ReadDigits(Tail(text), sign, 10 * whole + DigitValue(Head(text)))
    ELSE Read(Json("Number", sign * whole), text)

RECURSIVE ReadZeros(_, _)
ReadZeros(number, text) ==
    IF text # <<>> /\ Head(text) = "0" THEN ReadZeros(number, Tail(text))
    ELSE IF text # <<>> /\ IsDigit(Head(text)) THEN Unread
    ELSE Read(number, text)

ReadFraction(whole) ==
    IF ~whole.ok THEN Unread
    ELSE IF whole.rest # <<>> /\ Head(whole.rest) = "."
    THEN IF Len(whole.rest) >= 2 /\ IsDigit(whole.rest[2])
         THEN ReadZeros(whole.json, Tail(whole.rest))
         ELSE Unread
    ELSE whole

ReadNumber(text) ==
    IF Head(text) = "-"
    THEN IF Len(text) >= 2 /\ IsDigit(text[2])
         THEN ReadFraction(ReadDigits(Tail(text), -1, 0))
         ELSE Unread
    ELSE ReadFraction(ReadDigits(text, 1, 0))

ReadString(text) ==
    IF ReadChars(text, <<>>).ok
    THEN Read(Json("String", ReadChars(text, <<>>).json), ReadChars(text, <<>>).rest)
    ELSE Unread

RECURSIVE ReadValue(_)
RECURSIVE ReadItems(_, _)
RECURSIVE ReadMembers(_, _)
\* an item has been read: a comma and the next item, or the closing bracket
AfterItem(item, done) ==
    IF ~item.ok \/ item.rest = <<>> THEN Unread
    ELSE IF Head(item.rest) = "]"
    THEN Read(Json("Array", Append(done, item.json)), Tail(item.rest))
    ELSE IF Head(item.rest) = ","
    THEN ReadItems(Tail(item.rest), Append(done, item.json))
    ELSE Unread

ReadItems(text, done) == AfterItem(ReadValue(text), done)

\* the value of a member has been read; a key read again replaces its member
AfterMember(name, member, done) ==
    IF ~member.ok \/ member.rest = <<>> THEN Unread
    ELSE IF Head(member.rest) = "}"
    THEN Read(Json("Object", (name :> member.json) @@ done), Tail(member.rest))
    ELSE IF Head(member.rest) = ","
    THEN ReadMembers(Tail(member.rest), (name :> member.json) @@ done)
    ELSE Unread

AfterKey(key, done) ==
    IF ~key.ok \/ key.rest = <<>> \/ Head(key.rest) # ":" THEN Unread
    ELSE AfterMember(key.json, ReadValue(Tail(key.rest)), done)

ReadMembers(text, done) ==
    IF text = <<>> \/ Head(text) # "\"" THEN Unread
    ELSE AfterKey(ReadChars(Tail(text), <<>>), done)

ReadValue(text) ==
    IF text = <<>> THEN Unread
    ELSE CASE StartsWith(text, <<"n", "u", "l", "l">>) -> Read(Json("Null", 0), Skip(text, 4))
           [] StartsWith(text, <<"t", "r", "u", "e">>) -> Read(Json("Bool", TRUE), Skip(text, 4))
           [] StartsWith(text, <<"f", "a", "l", "s", "e">>) ->
                 Read(Json("Bool", FALSE), Skip(text, 5))
           [] Head(text) = "\"" -> ReadString(Tail(text))
           [] StartsWith(text, <<"[", "]">>) -> Read(Json("Array", <<>>), Skip(text, 2))
           [] StartsWith(text, <<"{", "}">>) -> Read(Json("Object", EmptyMap), Skip(text, 2))
           [] Head(text) = "[" -> ReadItems(Tail(text), <<>>)
           [] Head(text) = "{" -> ReadMembers(Tail(text), EmptyMap)
           [] Head(text) = "-" \/ IsDigit(Head(text)) -> ReadNumber(text)
           [] OTHER -> Unread

\* the whole text must be one value
from_str(text) ==
    IF ReadValue(text).ok /\ ReadValue(text).rest = <<>>
    THEN JsonOk(ReadValue(text).json)
    ELSE JsonErr

\* how deep arrays and dictionaries are nested in the values stringified
MaxDepth == 2

JsonAtoms ==
    {Nil, Boolean(TRUE), Boolean(FALSE), Number(0), Number(-3), Number(12),
     String(<<>>), String(<<"a", "\"", "\\">>), ArrayVal(<<>>), DictVal(EmptyMap),
     Val("Range", [start |-> <<>>, end |-> <<>>])}

\* the arrays and dictionaries a program builds around a value
JsonWrappers(value) ==
    {ArrayVal(<<value>>),
     ArrayVal(<<String(<<"a">>), value>>),
     ArrayVal(<<value, value>>),
     DictVal(String(<<"a">>) :> value),
     DictVal((String(<<"b", "\"">>) :> value) @@ (String(<<"a">>) :> Number(2))),
     DictVal(Number(1) :> value)}

Deepest(depths) == CHOOSE depth \in depths : \A other \in depths : depth >= other

RECURSIVE JsonDepth(_)
JsonDepth(value) ==
    CASE value.t = "Array" /\ value.v # <<>> ->
            1 + Deepest({JsonDepth(value.v[i]) : i \in 1..Len(value.v)})
      [] value.t = "Dict" /\ DOMAIN value.v # {} ->
            1 + Deepest({JsonDepth(value.v[key]) : key \in DOMAIN value.v})
      [] OTHER -> 0

JsonInit ==
    /\ NewInterpreter
    /\ json_value \in JsonAtoms
    /\ json_text = <<>>
    /\ json_parsed = <<>>

\* Err(..) of a native function meets unwrap() in the Call arm of execute
NativePanic ==
    /\ status' = "panic"
    /\ error' = "native"

\* the program puts the value into an array or a dictionary
JsonWrap ==
    /\ status = "idle" /\ json_text = <<>>
    /\ JsonDepth(json_value) < MaxDepth
    /\ \E value \in JsonWrappers(json_value) : json_value' = value
    /\ UNCHANGED <<stack, globals, frames, open_upvalues, handlers, instances, allocs,
                   status, error, caught, prog, pending, loaded_modules, symbol_table,
                   flattened, loader, reported, loader_calls, json_text, json_parsed>>

json_stringify ==
    /\ status = "idle" /\ json_text = <<>>
    /\ IF value_to_json(json_value).ok
       THEN /\ json_text' = <<to_string(value_to_json(json_value).json)>>
            /\ UNCHANGED <<status, error>>
       ELSE NativePanic /\ UNCHANGED json_text
    /\ UNCHANGED <<stack, globals, frames, open_upvalues, handlers, instances, allocs,
                   caught, prog, pending, loaded_modules, symbol_table, flattened,
                   loader, reported, loader_calls, json_value, json_parsed>>

json_parse ==
    /\ status = "idle" /\ json_text # <<>> /\ json_parsed = <<>>
    /\ IF from_str(json_text[1]).ok
       THEN /\ json_parsed' = <<json_to_value(from_str(json_text[1]).json)>>
            /\ UNCHANGED <<status, error>>
       ELSE NativePanic /\ UNCHANGED json_parsed
    /\ UNCHANGED <<stack, globals, frames, open_upvalues, handlers, instances, allocs,
                   caught, prog, pending, loaded_modules, symbol_table, flattened,
                   loader, reported, loader_calls, json_value, json_text>>

JsonNext == JsonWrap \/ json_stringify \/ json_parse

\* json.parse(json.stringify(v)) for the values v a program can build
JsonSpec == JsonInit /\ [][JsonNext]_vars

(***************************************************************************)
(* Properties                                                              *)
(***************************************************************************)
Bound(name) == name \in DOMAIN globals

GlobalNum(name, k) == Bound(name) /\ globals[name].t = "Number" /\ globals[name].v = k

GlobalBool(name, k) == Bound(name) /\ globals[name].t = "Boolean" /\ globals[name].v = k

GlobalClosure(name) == Bound(name) /\ globals[name].t = "Closure"

OneCellPerSlot ==
    \A i, j \in 1..Len(open_upvalues) :
        /\ open_upvalues[i].state = "Open"
        /\ open_upvalues[j].state = "Open"
        /\ open_upvalues[i].idx = open_upvalues[j].idx
        => i = j

\* C1: two closures made in one activation that capture the same local hold
\* the same upvalue cell (no stack slot has two Open cells); in `closures`
\* the read by q after p wrote yields what p wrote, once while the outer
\* frame is live (a = 1) and once after it returned (b = 2)
C1_SharedCell ==
    /\ OneCellPerSlot
    /\ prog = "closures" =>
          /\ GlobalClosure(p) /\ GlobalClosure(q)
                => globals[p].v.upvalues = globals[q].v.upvalues
          /\ status # "panic"
          /\ status = "done" => GlobalNum(a, 1) /\ GlobalNum(b, 2)

C1_Witness ==
    /\ prog = "closures" /\ status = "done"
    /\ GlobalNum(a, 1) /\ GlobalNum(b, 2)
    /\ GlobalClosure(p) /\ GlobalClosure(q)
    /\ Len(globals[q].v.upvalues) = 1
    /\ open_upvalues[globals[q].v.upvalues[1]].state = "Closed"

ShadowPrograms == {"shadow_if", "shadow_while"}

\* C2 as stated: inside the block x reads B (a = 2), after the block x reads
\* A again (b = 1)
C2_BlockShadows ==
    prog \in ShadowPrograms /\ status = "done" => GlobalNum(a, 2) /\ GlobalNum(b, 1)

\* C2 amended: inside a function the block's `var x = B` stores into the slot
\* x already has, so x reads B inside the block and after it; at top level
\* the block's declaration is a DefineGlobal of an existing name, a runtime
\* error that leaves x = A
C2_BlockOverwrites ==
    /\ prog \in ShadowPrograms =>
          /\ status # "panic"
          /\ status = "done" => GlobalNum(a, 2) /\ GlobalNum(b, 2)
    /\ prog = "shadow_top" =>
          /\ status # "done"
          /\ status = "panic" => error = "global_defined" /\ GlobalNum(x, 1)

C2_Witness == prog = "shadow_while" /\ status = "done" /\ GlobalNum(a, 2) /\ GlobalNum(b, 2)

ThrowCaught == Is("Throw") /\ stack # <<>> /\ handlers # <<>>

\* the code of the try statement a handler belongs to pushes that handler
HasTry(opcodes, target) ==
    \E i \in 1..Len(opcodes) :
        opcodes[i].op = "PushExceptionHandler" /\ opcodes[i].a = target

\* C3: a Throw with a handler removes the top handler, leaves as many frames
\* as the handler recorded and resumes at the handler's target in that frame,
\* which is the frame of the try statement (its code pushes that handler)
C3_ThrowResumesInCatch ==
    [][ThrowCaught =>
          /\ handlers' = Most(handlers)
          /\ Len(frames') = Last(handlers).frame_depth
          /\ frames'[Len(frames')].ip = Last(handlers).target
          /\ HasTry(frames'[Len(frames')].opcodes, Last(handlers).target)]_vars

C5_Dispatch ==
    prog = "dispatch" =>
        /\ status # "panic"
        /\ status = "done" => GlobalNum(r, 15)

C5_Witness == prog = "dispatch" /\ status = "done" /\ GlobalNum(r, 15)

ShortCircuitPrograms == {"and_false", "or_true"}

\* no frame is about to execute an instruction between a conditional jump
\* and its target
RightOperandSkipped ==
    \A k \in 1..Len(frames) :
        \A i \in 1..Len(frames[k].opcodes) :
            frames[k].opcodes[i].op \in {"JumpIfFalse", "JumpIfTrue"}
            => ~(i <= frames[k].ip /\ frames[k].ip < frames[k].opcodes[i].a)

\* C6: in `false and e()` and `true or e()` no instruction of e() is
\* executed: no frame is ever pushed for e, its side effect t = 1 never
\* happens, and the ip never enters the code of the right operand
C6_ShortCircuit ==
    prog \in ShortCircuitPrograms =>
        /\ Len(frames) <= 1
        /\ status = "running" => RightOperandSkipped
        /\ Bound(t) => GlobalNum(t, 0)
        /\ status # "panic"

C6_Witness ==
    /\ prog = "and_false" /\ status = "done"
    /\ GlobalBool(r, FALSE) /\ GlobalNum(t, 0)

\* the outcome of r = left op e(): whether r is the left operand (then e was
\* not called, t = 0) or the value 9 of e() (then t = 1)
YieldsLeft(name) ==
    /\ GlobalNum(t, 0)
    /\ Bound(r)
    /\ CASE name \in {"and_false", "or_false"} -> GlobalBool(r, FALSE)
         [] name \in {"and_true", "or_true"} -> GlobalBool(r, TRUE)
         [] name \in {"and_nil", "or_nil"} -> globals[r].t = "Nil"
         [] name \in {"and_num", "or_num"} -> GlobalNum(r, 5)

YieldsRight == GlobalNum(t, 1) /\ GlobalNum(r, 9)

LogicalPrograms ==
    {"and_false", "and_true", "and_nil", "and_num",
     "or_false", "or_true", "or_nil", "or_num"}

\* C7 as stated: `a and b` is a, b unevaluated, when a is false or Nil, else
\* b; `a or b` is a, b unevaluated, when a is neither false nor Nil, else b
C7_Falsy ==
    prog \in LogicalPrograms /\ status = "done" =>
        IF prog \in {"and_false", "and_nil", "or_true", "or_num"}
        THEN YieldsLeft(prog)
        ELSE YieldsRight

\* C7 amended: `a and b` is a, b unevaluated, exactly when a is Boolean
\* false; `a or b` is a, b unevaluated, exactly when a is Boolean true; for
\* every other a, Nil and numbers included, b is evaluated and is the result
C7_ExactBoolean ==
    prog \in LogicalPrograms =>
        /\ status # "panic"
        /\ status = "done" =>
              IF prog \in {"and_false", "or_true"} THEN YieldsLeft(prog) ELSE YieldsRight

C7_Witness == prog = "and_nil" /\ status = "done" /\ YieldsRight

GlobalOperand == At(Frame.constants, cur_opcode.a)

\* C8: DefineGlobal of a name that is bound, and SetGlobal of a name that is
\* not, end the run with an error and leave the global table as it was
C8_GlobalErrors ==
    [][/\ stack # <<>>
       /\ \/ Is("DefineGlobal") /\ GlobalOperand.t = "String" /\ Bound(GlobalOperand.v)
          \/ Is("SetGlobal") /\ GlobalOperand.t = "String" /\ ~Bound(GlobalOperand.v)
       => status' = "panic" /\ globals' = globals]_vars

C8_Witness ==
    /\ prog = "redefine" /\ status = "panic" /\ error = "global_defined"
    /\ GlobalNum(x, 1)

\* C9: a call with the wrong number of arguments never ends the run while a
\* handler is active
C9_ArityCaught == ~(status = "panic" /\ error = "arity" /\ handlers # <<>>)

\* C10: a type error, an index out of range, a missing global, a call of a
\* non-callable or a missing property never ends the run while a handler is
\* active
C10_ErrorsCaught ==
    ~(/\ status = "panic"
      /\ error \in {"type", "index", "global_missing", "not_callable", "property"}
      /\ handlers # <<>>)

(***************************************************************************)
(* Unhandled exceptions and construction                                   *)
(***************************************************************************)
ThrowUncaught == Is("Throw") /\ stack # <<>> /\ handlers = <<>>

\* C11: a Throw that finds the handler stack empty ends the run with the
\* error "unhandled", leaves frames and globals as they were, and no step is
\* ever taken once the run has ended with an error
C11_UnhandledAborts ==
    [][/\ status # "panic"
       /\ ThrowUncaught =>
             /\ status' = "panic" /\ error' = "unhandled"
             /\ frames' = frames /\ globals' = globals]_vars

C11_Witness ==
    /\ prog = "unhandled" /\ status = "panic" /\ error = "unhandled"
    /\ Len(frames) = 2
    /\ Bound(r) /\ globals[r].t = "Nil"

CallsClass == Is("Call") /\ Len(stack) > cur_opcode.a /\ At(stack, Len(stack) - cur_opcode.a - 1).t = "Class"

CalledClass == At(stack, Len(stack) - cur_opcode.a - 1).v

\* C12: a Call on a class whose parent chain has a constructor of the right
\* arity pushes a frame running that constructor, with the new instance in
\* slot 0 and the arguments above it
C12_ChainConstructor ==
    [][/\ CallsClass
       /\ find_method(CalledClass, CtorName) # <<>>
       /\ find_method(CalledClass, CtorName)[1].arity = cur_opcode.a
       => /\ Len(frames') = Len(frames) + 1
          /\ frames'[Len(frames')].opcodes = find_method(CalledClass, CtorName)[1].opcodes
          /\ frames'[Len(frames')].base = Len(stack) - cur_opcode.a - 1
          /\ At(stack', Len(stack) - cur_opcode.a - 1).t = "Instance"
          /\ Len(stack') = Len(stack)]_vars

ConstructPrograms == {"no_ctor", "ctor_end", "ctor_return", "ctor_return_value"}

\* C13: y = c() leaves an instance in y, whether c has no constructor, a
\* constructor that runs to its end, or one that executes `return` with or
\* without a value
C13_CallYieldsInstance ==
    prog \in ConstructPrograms =>
        /\ status # "panic"
        /\ Bound(y) => globals[y].t = "Instance"

(***************************************************************************)
(* Namespaces, comparison and the counting loop                            *)
(***************************************************************************)
Qualified(namespace, name) == namespace \o NsSep \o name

\* C17: a name defined at top level of a module block with namespace N is
\* stored under N::name, a name defined outside any block is stored bare,
\* and after a block ends the namespace in effect before it is back: x, f
\* and r, declared in m after the inner block n has ended, are stored under
\* m:: and y, declared after m has ended, is stored bare
C17_Mangled ==
    prog = "module_block" =>
        /\ status # "panic"
        /\ DOMAIN globals \subseteq
              {z, Qualified(n, a), Qualified(m, x), Qualified(m, f), Qualified(m, r), y}
        /\ status = "done" =>
              /\ GlobalNum(z, 0) /\ GlobalNum(Qualified(n, a), 1)
              /\ GlobalNum(Qualified(m, x), 2) /\ GlobalNum(Qualified(m, r), 2)
              /\ GlobalNum(y, 3)

C17_Witness ==
    /\ prog = "module_block" /\ status = "done"
    /\ GlobalNum(Qualified(m, x), 2) /\ GlobalNum(y, 3) /\ ~Bound(x)

\* C18: a function, a class or an instance read twice from one variable is
\* equal to itself
C18_SameObjectEqual ==
    prog \in {"eq_function", "eq_class", "eq_instance"} /\ status = "done"
        => GlobalBool(r, TRUE)

OrderedPair ==
    /\ Is("Greater") \/ Is("Less")
    /\ Len(stack) >= 2

\* C19: Greater and Less on operands that are not two Numbers or two Strings
\* end with an error and push no Boolean
C19_OrderFails ==
    [][/\ OrderedPair
       /\ ~(Last(stack).t = "Number" /\ Last(Most(stack)).t = "Number")
       /\ ~(Last(stack).t = "String" /\ Last(Most(stack)).t = "String")
       => status' = "panic"]_vars

\* C20: the counting loop with bound count ends, and ends with c = count and
\* s = 0 + 1 + ... + (count - 1); while it runs c never passes count and s
\* is the sum of the numbers below c or, between the two assignments of the
\* body, below c + 1
C20_LoopTerminates ==
    /\ [](prog \in LoopPrograms =>
            /\ status # "panic"
            /\ Bound(c) =>
                  /\ globals[c].t = "Number" /\ globals[s].t = "Number"
                  /\ globals[c].v \in 0..LoopCount(prog)
                  /\ 2 * globals[s].v \in {globals[c].v * (globals[c].v - 1),
                                          globals[c].v * (globals[c].v + 1)}
            /\ status = "done" =>
                  /\ GlobalNum(c, LoopCount(prog))
                  /\ 2 * globals[s].v = LoopCount(prog) * (LoopCount(prog) - 1))
    /\ (prog \in LoopPrograms ~> status = "done")

C20_Witness == prog = "loop5" /\ status = "done" /\ GlobalNum(c, 5) /\ GlobalNum(s, 10)

(***************************************************************************)
(* Imports                                                                 *)
(***************************************************************************)
\* the names a sequence of statements declares, position by position; name
\* resolution rewrites expressions and leaves declarations as they are
Declares(stmts) ==
    [i \in 1..Len(stmts) |-> IF IsDeclaration(stmts[i]) THEN <<stmts[i].name>> ELSE <<>>]

\* stmt is the block that holds the body of the module file at path
IsBodyOf(stmt, path) ==
    /\ stmt.k = "ModuleBlock"
    /\ Declares(stmt.statements) = Declares(Files[path])

\* the module files the code at position i of a flattened program imports:
\* those a module block names in its import statements, and for a statement
\* of the main program those the main program names
ImportedBy(ast, i) ==
    LET importer == IF ast[i].k = "ModuleBlock" THEN ast[i].statements ELSE ast
    IN  {resolve_path(importer[j].path)[1] :
            j \in {o \in 1..Len(importer) : /\ importer[o].k = "Import"
                                            /\ resolve_path(importer[o].path) # <<>>}}

\* the body of the module file at path stands before position i of the
\* run-th flattened program: earlier in it, or in the program of an earlier
\* run_source
PlacedBefore(path, run, i) ==
    \/ \E j \in 1..(i - 1) : IsBodyOf(flattened[run][j], path)
    \/ \E o \in 1..(run - 1) : \E j \in 1..Len(flattened[o]) : IsBodyOf(flattened[o][j], path)

\* C14: in the flattened program the body of every imported module stands
\* before all code of whatever imports it, the statements of the main program
\* and the body of any other module that imports it
C14_BodyPrecedesImporters ==
    \A run \in 1..Len(flattened) : \A i \in 1..Len(flattened[run]) :
        \A path \in ImportedBy(flattened[run], i) : PlacedBefore(path, run, i)

\* where the body of the module file at path has been placed
Placements(path) ==
    {<<run, i>> \in (1..Len(flattened)) \X (1..MaxStatements) :
        i <= Len(flattened[run]) /\ IsBodyOf(flattened[run][i], path)}

\* the main program of some run_source imports the module file at path
Imported(path) ==
    \E run \in 1..Len(flattened) : \E i \in 1..Len(flattened[run]) :
        /\ flattened[run][i].k = "Import"
        /\ resolve_path(flattened[run][i].path) = <<path>>

\* C15: whatever the import statements one interpreter handles (a module
\* imported twice by one program, under one namespace or two, or by two
\* successive run_source calls), the body of each imported module is placed
\* exactly once in the flattened programs
C15_BodyPlacedOnce ==
    \A path \in DOMAIN Files :
        /\ Cardinality(Placements(path)) <= 1
        /\ Imported(path) => Placements(path) # {}

RECURSIVE FieldAccesses(_)
RECURSIVE AccessesIn(_)
\* the accesses name.field that a sequence of nodes contains
AccessesIn(nodes) == UNION {FieldAccesses(nodes[i]) : i \in 1..Len(nodes)}

\* the accesses name.field that a statement, a class member or an
\* expression contains, at any depth
FieldAccesses(node) ==
    CASE node.k \in {"Binary"} -> FieldAccesses(node.left) \cup FieldAccesses(node.right)
      [] node.k = "Unary" -> FieldAccesses(node.operand)
      [] node.k = "Call" -> FieldAccesses(node.callee) \cup AccessesIn(node.arguments)
      [] node.k = "FieldAccess" ->
            IF node.object.k = "Identifier" THEN {<<node.object.name, node.field>>}
            ELSE FieldAccesses(node.object)
      [] node.k = "Index" -> FieldAccesses(node.object) \cup FieldAccesses(node.index)
      [] node.k = "Range" -> AccessesIn(node.start) \cup AccessesIn(node.end)
      [] node.k \in {"Lambda", "FuncDecl", "Method", "Constructor", "While"} ->
            AccessesIn(node.body)
            \cup (IF node.k = "While" THEN FieldAccesses(node.condition) ELSE {})
      [] node.k = "VarDecl" -> AccessesIn(node.initializer)
      [] node.k = "Assignment" ->
            FieldAccesses(node.value)
            \cup (IF node.target.k = "FieldAccess" THEN FieldAccesses(node.target.object)
                  ELSE {})
      [] node.k = "Expression" -> FieldAccesses(node.e)
      [] node.k = "ModuleBlock" -> AccessesIn(node.statements)
      [] node.k = "If" ->
            FieldAccesses(node.condition) \cup AccessesIn(node.then_branch)
            \cup (IF node.else_branch # <<>> THEN AccessesIn(node.else_branch[1]) ELSE {})
      [] node.k = "Return" -> AccessesIn(node.value)
      [] node.k = "ClassDecl" -> AccessesIn(node.members)
      [] node.k = "Try" -> AccessesIn(node.try_body) \cup AccessesIn(node.catch_body)
      [] node.k = "Throw" -> FieldAccesses(node.expression)
      [] OTHER -> {}

\* name is a registered module and field is exported by it
IsModuleMember(table, name, field) ==
    /\ lookup(table, name) # <<>>
    /\ lookup(table, name)[1].kind = "Module"
    /\ lookup(table, name)[1].module_scope_id # <<>>
    /\ lookup_in_scope(table, lookup(table, name)[1].module_scope_id[1], field) # <<>>
    /\ lookup_in_scope(table, lookup(table, name)[1].module_scope_id[1], field)[1].is_exported

\* C16: once name resolution has succeeded, no access m.s where m is a
\* registered module and s one of its exports is left in the program,
\* wherever it stood: every one has become a module access
C16_NoModuleFieldAccessLeft ==
    flattened # <<>> =>
        \A access \in AccessesIn(Last(flattened)) :
            ~IsModuleMember(symbol_table, access[1], access[2])

(***************************************************************************)
(* Bound methods                                                           *)
(***************************************************************************)
\* the objects allocated so far that a value on the stack or in a global
\* refers to as a bound method
BoundMethods ==
    {stack[i].v.id : i \in {j \in 1..Len(stack) : stack[j].t = "BoundMethod"}}
    \cup {globals[name].v.id : name \in {o \in DOMAIN globals : globals[o].t = "BoundMethod"}}

\* GetProperty is about to read a method of the instance on top of the stack
ReadsMethod ==
    /\ Is("GetProperty") /\ TrailingName # <<>> /\ stack # <<>>
    /\ Last(stack).t = "Instance"
    /\ TrailingName[1] \notin DOMAIN instances[Last(stack).v].fields
    /\ find_method(instances[Last(stack).v].class, TrailingName[1]) # <<>>

\* Call is about to call the bound method at the callee position, with the
\* number of arguments its function takes
CallsBoundMethod ==
    /\ Is("Call") /\ Len(stack) > cur_opcode.a
    /\ At(stack, Len(stack) - cur_opcode.a - 1).t = "BoundMethod"
    /\ At(stack, Len(stack) - cur_opcode.a - 1).v.method.arity = cur_opcode.a

\* C21: every evaluation of instance.m for a method m yields a bound method
\* that is a new object, not one any value refers to already, and that pairs
\* the instance with the function find_method gives for m; calling a bound
\* method starts a frame of its function with its receiver in slot 0.  In
\* bound_twice, p and q are two objects with one receiver and one function,
\* and calling each returns the field of that receiver
C21_FreshBoundMethod ==
    /\ [][ReadsMethod =>
            /\ Last(stack').t = "BoundMethod"
            /\ Last(stack').v.id \notin BoundMethods
            /\ Last(stack').v.receiver = Last(stack).v
            /\ <<Last(stack').v.method>> =
                   find_method(instances[Last(stack).v].class, TrailingName[1])]_vars
    /\ [][CallsBoundMethod =>
            LET bound == At(stack, Len(stack) - cur_opcode.a - 1).v
            IN  /\ Len(frames') = Len(frames) + 1
                /\ Last(frames').opcodes = bound.method.opcodes
                /\ Last(frames').ip = 0
                /\ At(stack', Last(frames').base) = InstanceVal(bound.receiver)]_vars
    /\ [](prog = "bound_twice" /\ Bound(p) /\ Bound(q) =>
            /\ globals[p].v.id # globals[q].v.id
            /\ globals[p].v.receiver = globals[q].v.receiver
            /\ globals[p].v.method = globals[q].v.method)
    /\ [](prog = "bound_twice" /\ status = "done" => GlobalNum(a, 5) /\ GlobalNum(b, 5))

C21_Witness ==
    /\ prog = "bound_twice" /\ status = "done"
    /\ GlobalNum(a, 5) /\ GlobalNum(b, 5)
    /\ globals[p].v.id # globals[q].v.id

(***************************************************************************)
(* JSON                                                                    *)
(***************************************************************************)
\* built only from Nil, Boolean, Number, String, Array and Dict with String
\* keys
RECURSIVE Representable(_)
Representable(value) ==
    CASE value.t \in {"Nil", "Boolean", "Number", "String"} -> TRUE
      [] value.t = "Array" -> \A i \in 1..Len(value.v) : Representable(value.v[i])
      [] value.t = "Dict" ->
            \A key \in DOMAIN value.v : key.t = "String" /\ Representable(value.v[key])
      [] OTHER -> FALSE

C23_ReturnRestoresStack ==
    [][Is("Return_") =>
          /\ Len(frames') = Len(frames) - 1
          /\ Len(stack') = Frame.base + 1
          /\ stack # <<>> /\ Last(stack') = Last(stack)
          /\ SubSeq(stack', 1, Frame.base) = SubSeq(stack, 1, Frame.base)]_vars

\* a return from a frame that had left locals under the returned value
C23_Witness ==
    /\ prog = "closures" /\ status = "running"
    /\ Is("Return_") /\ Len(frames) > 1 /\ Len(stack) > Frame.base + 1

(***************************************************************************)
(* Calls                                                                   *)
(***************************************************************************)
CalleeIdx == Len(stack) - cur_opcode.a - 1

\* Call is about to call a function or a closure with the number of
\* arguments it takes
CallsFunction ==
    /\ Is("Call") /\ CalleeIdx >= 0
    /\ \/ At(stack, CalleeIdx).t = "Function"
          /\ At(stack, CalleeIdx).v.arity = cur_opcode.a
       \/ At(stack, CalleeIdx).t = "Closure"
          /\ At(stack, CalleeIdx).v.function.arity = cur_opcode.a

\* an instruction of the frame on top that is neither a Throw, which cuts the
\* stack down to the depth of a handler, nor a write through an upvalue,
\* which stores into the local of an enclosing function
OwnFrameStep ==
    /\ Running /\ InCode
    /\ cur_opcode.op \notin {"Throw", "SetUpvalue"}
    /\ status' # "panic"

\* C24: Call on a function or closure removes the callee and starts a frame
\* at the callee position, so that its slots 0..argc-1 are the arguments in
\* call order; Call on a bound method starts the frame at the callee
\* position with the receiver written there, slot 0, and the arguments in
\* slots 1..argc.  The values below the callee position are unchanged by the
\* call and by every instruction the callee executes, so the caller finds
\* them under the result: g(20, f(f(1))) is 17 and g(y.s(f(1), 4), 100),
\* with y.v = 5, is -97
C24_CallFrames ==
    /\ [][CallsFunction =>
            /\ Len(frames') = Len(frames) + 1
            /\ Last(frames').base = CalleeIdx
            /\ stack' = SubSeq(stack, 1, CalleeIdx)
                        \o SubSeq(stack, CalleeIdx + 2, Len(stack))]_vars
    /\ [][CallsBoundMethod =>
            /\ Len(frames') = Len(frames) + 1
            /\ Last(frames').base = CalleeIdx
            /\ stack' = SetAt(stack, CalleeIdx,
                              InstanceVal(At(stack, CalleeIdx).v.receiver))]_vars
    /\ [][OwnFrameStep =>
            SubSeq(stack', 1, Frame.base) = SubSeq(stack, 1, Frame.base)]_vars
    /\ [](prog = "nested_calls" /\ status = "done" =>
            GlobalNum(d, 7) /\ GlobalNum(r, 17) /\ GlobalNum(t, -97))

C24_Witness ==
    /\ prog = "nested_calls" /\ status = "done"
    /\ GlobalNum(d, 7) /\ GlobalNum(r, 17) /\ GlobalNum(t, -97)

(***************************************************************************)
(* Captures through intermediate functions                                 *)
(***************************************************************************)
DeepCaptures == {"deep_capture", "deep_capture_used", "deep_capture_other"}

\* C25: when h, nested two levels below f, refers to f's local x, the
\* function g between them carries a descriptor for x and h's descriptor
\* {is_local: false, index: i} names the position of x's cell in g's upvalue
\* list: the Closure instruction finds index i among the cells of the frame
\* of g, and the cell it copies is the cell of x, so that h() is 7
C25_ChainedCapture ==
    prog \in DeepCaptures =>
        /\ error # "upvalue_index"
        /\ status = "done" => GlobalNum(r, 7)

\* g reads x itself before it declares h: its closure of h copies x's cell
C25_Chained ==
    /\ prog = "deep_capture_used" /\ status = "done" /\ GlobalNum(r, 7)

(***************************************************************************)
(* Upvalue cells and frames                                                *)
(***************************************************************************)
IsOpen(cell) == cell.state = "Open"

\* the step removes frames; the lowest of them had this base
RemovesFrame == Len(frames') < Len(frames) /\ status' # "panic"

RemovedBase == frames[Len(frames') + 1].base

\* C26: a cell goes from Open to Closed only, once: a Closed cell stays
\* Closed and an Open cell keeps its slot.  When a step removes a frame with
\* base b (Return_, the end of its code, unwinding), every cell Open on a
\* slot >= b is Closed afterwards and holds the value the slot had, so no
\* Open cell refers to a slot above the stack
C26_CellsClosedWithFrame ==
    /\ [][\A i \in DOMAIN open_upvalues :
            /\ i \in DOMAIN open_upvalues'
            /\ ~IsOpen(open_upvalues[i]) => ~IsOpen(open_upvalues'[i])
            /\ IsOpen(open_upvalues[i]) /\ IsOpen(open_upvalues'[i])
                  => open_upvalues'[i].idx = open_upvalues[i].idx]_vars
    /\ [][RemovesFrame =>
            \A i \in DOMAIN open_upvalues :
               IsOpen(open_upvalues[i]) /\ open_upvalues[i].idx >= RemovedBase
                  => /\ ~IsOpen(open_upvalues'[i])
                     /\ open_upvalues'[i].val = At(stack, open_upvalues[i].idx)]_vars
    /\ [](\A i \in DOMAIN open_upvalues :
            IsOpen(open_upvalues[i]) => open_upvalues[i].idx < Len(stack))

\* a Return_ closes a cell that was Open on a slot of the returning frame
C26_ClosedByReturn ==
    /\ prog = "closures" /\ Is("Return_") /\ Len(frames) > 1
    /\ \E i \in DOMAIN open_upvalues :
          IsOpen(open_upvalues[i]) /\ open_upvalues[i].idx >= Frame.base

(***************************************************************************)
(* Handlers and frames                                                     *)
(***************************************************************************)
\* the handlers pushed by the frame on top that are still on the handler
\* stack
OwnHandlers == {i \in DOMAIN handlers : handlers[i].frame_depth >= Len(frames)}

\* C27: control leaves a try body only after PopExceptionHandler has removed
\* the handler of that try: when Return_ executes, no handler pushed by the
\* returning frame is left on the handler stack.  So in every state each
\* handler records a frame depth that is at most the number of frames
C27_HandlerPoppedOnExit ==
    /\ [][Is("Return_") => OwnHandlers = {}]_vars
    /\ [](Running => \A i \in DOMAIN handlers : handlers[i].frame_depth <= Len(frames))

\* a try body that ends normally: its handler is popped before the jump over
\* the catch block
C27_PoppedAtEnd ==
    /\ Is("PopExceptionHandler") /\ OwnHandlers # {}

(***************************************************************************)
(* Handlers of completed try statements                                    *)
(***************************************************************************)
Throwing == Is("Throw") /\ stack # <<>>

\* the instruction at addr is inside the body of the try whose
\* PushExceptionHandler is at position i of code: the body ends before the
\* Jump that precedes the catch block
Encloses(code, i, addr) ==
    /\ At(code, i).op = "PushExceptionHandler"
    /\ i < addr /\ addr < At(code, i).a - 1

EnclosingTries == {i \in 0..(Len(Frame.opcodes) - 1) : Encloses(Frame.opcodes, i, Frame.ip)}

Innermost == CHOOSE i \in EnclosingTries : \A j \in EnclosingTries : j <= i

\* the handler on top was pushed by a try statement of the executing frame
OwnTry(i) ==
    /\ At(Frame.opcodes, i) = Op1("PushExceptionHandler", Last(handlers).target)
    /\ Last(handlers).frame_depth = Len(frames)

C28_NestedWitness ==
    /\ prog = "nested_in_catch" /\ status = "done"
    /\ GlobalNum(r, 5) /\ GlobalNum(t, 8)

(***************************************************************************)
(* The end of a frame's code                                               *)
(***************************************************************************)
\* the ip of a called frame has passed the end of its code
CalledFrameEnds == Running /\ ~InCode /\ Len(frames) > 1

\* C29: when the ip of a frame other than the root frame passes the end of
\* its code, the step is the step of Return_ with Nil: the upvalues at or
\* above the frame's base are closed, the frame is popped, the stack is
\* truncated to the base and Nil is pushed
C29_EndReturnsNil ==
    [][CalledFrameEnds /\ CanClose(open_upvalues, stack, Frame.base) =>
          /\ frames' = Most(frames)
          /\ open_upvalues' = close_upvalues_from(open_upvalues, stack, Frame.base)
          /\ stack' = Append(Truncate(stack, Frame.base), Nil)]_vars

\* a called frame at the end of its code with values above its base
C29_FrameEnds ==
    /\ prog = "raw_fall_off" /\ CalledFrameEnds
    /\ Len(stack) > Frame.base

\* the ip of the root frame has passed the end of its code
RootFrameEnds == Running /\ ~InCode /\ Len(frames) = 1

\* C30: when the ip of the root frame passes the end of its code the run
\* ends and the stack holds at most one element: its previous top if it was
\* not empty, nothing of what lay beneath
C30_RootEndKeepsTop ==
    [][RootFrameEnds =>
          /\ status' = "done"
          /\ Len(stack') <= 1
          /\ stack # <<>> => stack' = <<Last(stack)>>
          /\ stack = <<>> => stack' = <<>>]_vars

\* the bytecode with a local under the value read last: only that value is
\* left
C30_Witness ==
    /\ prog = "raw_locals" /\ status = "done"
    /\ stack = << Number(2) >>

(***************************************************************************)
(* Lines of the REPL                                                       *)
(***************************************************************************)
\* the ip of the frame that execute pushed for the line has passed the end
\* of the line's code, which generate ends with Halt
LineEnds ==
    /\ Running /\ ~InCode
    /\ Frame.opcodes # <<>> /\ Last(Frame.opcodes).op = "Halt"

\* C31: when the code of a line ends with a value on the operand stack, that
\* value is on top of the operand stack afterwards, for the first line run
\* on the virtual machine and for every later one
C31_LineValueOnTop ==
    [][LineEnds /\ Len(stack) > Frame.base =>
          stack' # <<>> /\ Last(stack') = Last(stack)]_vars

\* the first line 1 + 2 has returned with 3 on the stack
C31_FirstLine ==
    /\ prog = "line_value" /\ status = "done" /\ pending # <<>>
    /\ stack = << Number(3) >>

(***************************************************************************)
(* Stack depth between statements                                          *)
(***************************************************************************)
\* the addresses a Jump of the code goes back to: the heads of its loops
LoopHeads(code) ==
    {code[i].a : i \in {j \in DOMAIN code : code[j].op = "Jump" /\ code[j].a < j - 1}}

AtLoopHead == Running /\ InCode /\ Frame.ip \in LoopHeads(Frame.opcodes)

\* programs whose top level declares globals only
DepthPrograms == LoopPrograms \cup {"line_value", "loop_call", "loop_field"}

\* C32: a complete statement leaves the operand stack at the depth it had,
\* apart from the slots of new locals.  At top level of a program without
\* locals the stack is therefore empty at the head of a while loop, on every
\* iteration, and after the last statement, also when the statements are an
\* expression statement, a call whose result is unused, or a field assignment
C32_StatementsKeepDepth ==
    /\ prog \in DepthPrograms /\ Len(frames) = 1
    /\ AtLoopHead \/ Is("Halt")
    => stack = <<>>

\* the head of the counting loop is reached again with an empty stack
C32_LoopHeadAgain ==
    /\ prog = "loop2" /\ AtLoopHead /\ stack = <<>>
    /\ GlobalNum(c, 2)

(***************************************************************************)
(* super                                                                   *)
(***************************************************************************)
\* C33: super.m in a method of class b starts the search at the parent of b,
\* whatever the class of the receiver: with a <- b <- c, b.m calling super.m
\* and c not overriding m, m on an instance of c runs b.m once, then a.m, and
\* ends (three frames at most, r = 1 + 10); on an instance of the class that
\* defines the method (dispatch) x.m() is 5 + 10
C33_SuperFromDefiningClass ==
    /\ prog = "super_chain" =>
          /\ Len(frames) <= 3
          /\ status = "done" => GlobalNum(r, 11)
    /\ prog = "dispatch" /\ status = "done" => GlobalNum(r, 15)

\* super.m on an instance of the class that defines the calling method
C33_SuperOfOwnClass ==
    /\ prog = "dispatch" /\ status = "done" /\ GlobalNum(r, 15)

(***************************************************************************)
(* Recursive functions                                                     *)
(***************************************************************************)
\* C34: a function declared inside another function can call itself by name:
\* the name inside its body is the function being declared, as it is for a
\* function declared at top level.  g counts down from 2, so g(2) is 2 in
\* both programs
C34_RecursiveReference ==
    prog \in {"recursive_top", "recursive_nested"} =>
        /\ status # "panic"
        /\ status = "done" => GlobalNum(r, 2)

\* the function declared at top level has called itself down to 0
C34_TopLevel ==
    /\ prog = "recursive_top" /\ status = "done" /\ GlobalNum(r, 2)

(***************************************************************************)
(* C35: load_module leaves the loading stack of the loader as it found it  *)
(* on every return, Ok or Err, so between the loads the stack is empty,    *)
(* and a load that fails again reports the read or parse error again and   *)
(* never a cyclic dependency: no file here imports itself.                 *)
(***************************************************************************)
C35_LoadingStackRestored ==
    /\ loader.loading_stack = <<>>
    /\ \A i \in 1..Len(reported) : reported[i] # "cycle"

\* the second import of the file that does not parse is reported as a cycle
C35_FailedLoadReportedAsCycle ==
    /\ prog = "import_broken_twice"
    /\ reported = << "parse", "cycle" >>
    /\ loader.loading_stack = << q >>

\* the load of a file that can be read and parsed ends its loading
C35_LoadedAndEnded ==
    /\ prog = "import_use" /\ status = "done"
    /\ loader.loading_stack = <<>> /\ loader.resolved_cache = {m}

(***************************************************************************)
(* The module loader on its own: begin_loading and end_loading called in   *)
(* any order on the paths of two files (one of them spelled in two ways),  *)
(* of a file that does not exist and of an embedded module.                *)
(***************************************************************************)
Paths == {m, RelPrefix \o m \o PnsExt, n, z} \cup Embedded

Returned(call, path, err) == << [call |-> call, path |-> path, err |-> err] >>

BeginLoadingReturns(path, began) ==
    /\ loader' = began.loader
    /\ returned' = Returned("begin_loading", path, began.err)
    /\ begun' = IF began.ok THEN begun \cup {path_to_use(path)} ELSE begun

BeginLoading ==
    /\ \E path \in Paths : BeginLoadingReturns(path, begin_loading(loader, path))
    /\ UNCHANGED <<stack, globals, frames, open_upvalues, handlers, instances, allocs,
                   status, error, caught, prog, pending, loaded_modules, symbol_table,
                   flattened, reported, native_json>>

EndLoading ==
    /\ \E path \in Paths :
          /\ loader' = end_loading(loader, path)
          /\ returned' = Returned("end_loading", path, "")
          /\ begun' = begun \ {path_to_use(path)}
    /\ UNCHANGED <<stack, globals, frames, open_upvalues, handlers, instances, allocs,
                   status, error, caught, prog, pending, loaded_modules, symbol_table,
                   flattened, reported, native_json>>

LoaderNext == BeginLoading \/ EndLoading

LoaderSpec == Init /\ [][LoaderNext]_vars

\* no path is on the vector twice
NoDuplicates(vec) == \A i, j \in 1..Len(vec) : vec[i] = vec[j] => i = j

BeginLoadingReturned == returned' # <<>> /\ returned'[1].call = "begin_loading"

(***************************************************************************)
(* C36: after any sequence of begin_loading and end_loading calls,         *)
(* is_loading(p) holds exactly when a begin_loading of p has succeeded     *)
(* with no end_loading of p since (two spellings of the path of one file   *)
(* are one path), and no path is on the loading stack twice;               *)
(* begin_loading(p) returns the cyclic-dependency error exactly when       *)
(* is_loading(p) held before the call, and then leaves the loader as it    *)
(* was.                                                                    *)
(***************************************************************************)
C36_IsLoadingBetweenBeginAndEnd ==
    /\ [](/\ \A path \in Paths : is_loading(loader, path) <=> path_to_use(path) \in begun
          /\ NoDuplicates(loader.loading_stack))
    /\ [][BeginLoadingReturned =>
            /\ returned'[1].err = "cycle" <=> is_loading(loader, returned'[1].path)
            /\ returned'[1].err = "cycle" => loader' = loader]_vars

\* m is being loaded, n has been loaded, and a begin_loading of m under its
\* other spelling has just been rejected
C36_CycleRejected ==
    /\ returned = Returned("begin_loading", RelPrefix \o m \o PnsExt, "cycle")
    /\ loader.loading_stack = << m >>
    /\ loader.resolved_cache = {n}
    /\ begun = {m}

(***************************************************************************)
(* The compiled units of a program: its top-level code and, through the    *)
(* Function constants, the code of every function, method and lambda in    *)
(* it, each with its own constant pool.                                    *)
(***************************************************************************)
Unit(opcodes, constants) == [opcodes |-> opcodes, constants |-> constants]

RECURSIVE Units(_)
Units(unit) ==
    {unit} \cup
    UNION {Units(Unit(unit.constants[i].v.opcodes, unit.constants[i].v.constants)) :
              i \in {j \in 1..Len(unit.constants) : unit.constants[j].t = "Function"}}

\* the units of the programs the generator has compiled so far
Generated ==
    UNION {Units(Unit(generate(flattened[i]).opcodes, generate(flattened[i]).constants)) :
              i \in 1..Len(flattened)}

JumpOps == {"Jump", "JumpIfTrue", "JumpIfFalse"}

JumpsOf(opcodes) == {i \in 1..Len(opcodes) : opcodes[i].op \in JumpOps}

(***************************************************************************)
(* C37: in the finished opcode stream of every unit the generator          *)
(* produces, the target t of every Jump, JumpIfTrue and JumpIfFalse        *)
(* satisfies 0 <= t < length of that stream.                               *)
(***************************************************************************)
C37_JumpTargetsInside ==
    \A unit \in Generated :
        \A i \in JumpsOf(unit.opcodes) :
            0 <= unit.opcodes[i].a /\ unit.opcodes[i].a < Len(unit.opcodes)

\* a top-level stream whose last statement is a loop: the jump that leaves
\* the loop lands on the closing Halt
C37_JumpToLastInstruction ==
    /\ prog = "loop2" /\ frames # <<>>
    /\ Unit(frames[1].opcodes, frames[1].constants) \in Generated
    /\ \E i \in JumpsOf(frames[1].opcodes) :
          /\ frames[1].opcodes[i].a = Len(frames[1].opcodes) - 1
          /\ Last(frames[1].opcodes).op = "Halt"

NameOps == {"DefineGlobal", "SetGlobal", "GetGlobal", "DefineMethod"}

\* a name is a String, the operand of Closure a Function, the operand of
\* Constant any value
OfExpectedKind(o, value) ==
    /\ o \in NameOps => value.t = "String"
    /\ o = "Closure" => value.t = "Function"

PoolOperands(opcodes) ==
    {i \in 1..Len(opcodes) : opcodes[i].op \in NameOps \cup {"Closure", "Constant"}}

(***************************************************************************)
(* C38: in every compiled unit each pool-index operand (Constant, the      *)
(* function index of Closure, the name index of DefineGlobal, SetGlobal,   *)
(* GetGlobal and DefineMethod) is smaller than the size of the unit's own  *)
(* constant pool and refers to an entry of the expected kind; and the      *)
(* code and the pool of every frame are those of one compiled unit.        *)
(***************************************************************************)
C38_PoolOperandsInside ==
    prog \notin DOMAIN Raw =>
        /\ \A unit \in Generated :
              \A i \in PoolOperands(unit.opcodes) :
                  /\ unit.opcodes[i].a < Len(unit.constants)
                  /\ OfExpectedKind(unit.opcodes[i].op, At(unit.constants, unit.opcodes[i].a))
        /\ \A i \in 1..Len(frames) : Unit(frames[i].opcodes, frames[i].constants) \in Generated

\* a method runs on the pool of its own unit, which differs from the pool
\* of the top-level code that declares the class
C38_MethodOnOwnPool ==
    /\ prog = "dispatch" /\ Len(frames) = 2
    /\ frames[2].constants # frames[1].constants
    /\ Unit(frames[2].opcodes, frames[2].constants) \in Generated
    /\ PoolOperands(frames[2].opcodes) # {}

(***************************************************************************)
(* C39: in every reachable state each Open upvalue cell refers to a stack  *)
(* index smaller than the length of the operand stack, so GetUpvalue,      *)
(* SetUpvalue and the closing of upvalues never index outside the stack;   *)
(* also when the closure captures a local whose declaration has not        *)
(* executed.                                                               *)
(***************************************************************************)
C39_OpenCellsInsideStack ==
    prog \notin DOMAIN Raw =>
        /\ \A i \in DOMAIN open_upvalues :
              IsOpen(open_upvalues[i]) => open_upvalues[i].idx < Len(stack)
        /\ frames # <<>> /\ status = "panic" /\ InCode
           /\ cur_opcode.op \in {"GetUpvalue", "SetUpvalue"}
              => error # "stack_index"

\* the branch that declares x was not taken: the lambda's cell is Open on a
\* slot above the stack, and reading x through it fails
C39_CellAboveStack ==
    /\ prog = "capture_undeclared" /\ status = "panic" /\ error = "stack_index"
    /\ \E i \in DOMAIN open_upvalues :
          IsOpen(open_upvalues[i]) /\ open_upvalues[i].idx >= Len(stack)

\* the branch was taken: the cell is Open on the slot of x and the call
\* reads 2 through it
C39_DeclaredLocalCaptured ==
    /\ prog = "capture_declared" /\ Is("GetUpvalue")
    /\ IsOpen(Cell(cur_opcode.a)) /\ At(stack, Cell(cur_opcode.a).idx) = Number(2)

\* the code of the methods and constructors a unit defines: the Function
\* constants pushed for DefineMethod
MethodsOf(unit) ==
    {At(unit.constants, unit.opcodes[i].a).v.opcodes :
        i \in {j \in 1..(Len(unit.opcodes) - 1) :
                  /\ unit.opcodes[j].op = "Constant"
                  /\ unit.opcodes[j + 1].op = "DefineMethod"}}

UpvalueOps == {"GetUpvalue", "SetUpvalue"}

(***************************************************************************)
(* C40: whenever GetUpvalue(i) or SetUpvalue(i) executes, i is smaller     *)
(* than the number of upvalue cells of the executing frame; and the code   *)
(* compiled for a method or constructor contains no GetUpvalue and no      *)
(* SetUpvalue, wherever the class is declared.                             *)
(***************************************************************************)
C40_UpvalueIndexInside ==
    prog \notin DOMAIN Raw =>
        /\ Is("GetUpvalue") \/ Is("SetUpvalue") => cur_opcode.a < Len(Frame.upvalues)
        /\ \A unit \in Generated :
              \A code \in MethodsOf(unit) :
                  \A i \in 1..Len(code) : code[i].op \notin UpvalueOps

\* the method reads the local of the function its class is declared in: its
\* frame has no cells and GetUpvalue(0) fails
C40_MethodReadsUpvalue ==
    /\ prog = "method_in_function" /\ status = "panic" /\ error = "upvalue_index"
    /\ InCode /\ cur_opcode = Op1("GetUpvalue", 0) /\ Frame.upvalues = <<>>

\* the same for the catch variable of a top-level try
C40_MethodReadsCatchVariable ==
    /\ prog = "method_in_catch" /\ status = "panic" /\ error = "upvalue_index"
    /\ InCode /\ cur_opcode = Op1("GetUpvalue", 0) /\ Frame.upvalues = <<>>

\* a closure reads its first cell
C40_ClosureReadsCell ==
    /\ prog = "capture_declared" /\ Is("GetUpvalue")
    /\ cur_opcode.a = 0 /\ Len(Frame.upvalues) = 1

====
